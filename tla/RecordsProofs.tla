----------------------------- MODULE RecordsProofs -----------------------------
(***************************************************************************)
(* What holds of the records that the bot keeps of a member: of his         *)
(* punishments, for every number of handlers, of commands and of failing    *)
(* calls; and of what is logged and counted of the events of the guild, for *)
(* every number of messages, whatever the log remembers and whatever fails. *)
(***************************************************************************)
EXTENDS Punishments, GuildEvents, FiniteSetTheorems, SequenceTheorems, WellFoundedInduction, TLAPS

-----------------------------------------------------------------------------
(* Programs, and what a step does to the handler that takes it.            *)

Kinds == {"warn", "mute", "unmute", "kick", "ban", "unban", "revoke",
          "timeoutEntry", "banEntry", "otherEntry"}
Length(kind) ==
    CASE kind = "mute" -> 6
      [] kind \in {"warn", "unmute", "kick", "ban"} -> 4
      [] kind = "otherEntry" -> 1
      [] OTHER -> 2

LEMMA Kinds1 == DOMAIN Program = Kinds
  BY DEF Program, Kinds

LEMMA Lengths == \A k \in Kinds : Len(Program[k]) = Length(k)
<1>1. Program["warn"] = <<"insert", "tell", "log", "escalation">>  BY DEF Program, warn_user
<1>21. Len(Program["warn"]) = Length("warn")  BY <1>1, SMT DEF Length
<1>2. Program["mute"] = <<"strip", "timeout", "insert", "tell", "log", "escalation">>  BY DEF Program, mute_user
<1>22. Len(Program["mute"]) = Length("mute")  BY <1>2, SMT DEF Length
<1>3. Program["unmute"] = <<"lookup", "deactivate", "lift", "log">>  BY DEF Program, unmute_user
<1>23. Len(Program["unmute"]) = Length("unmute")  BY <1>3, SMT DEF Length
<1>4. Program["kick"] = <<"tell", "kick", "insert", "log">>  BY DEF Program, kick_user
<1>24. Len(Program["kick"]) = Length("kick")  BY <1>4, SMT DEF Length
<1>5. Program["ban"] = <<"tell", "ban", "insert", "log">>  BY DEF Program, ban_user
<1>25. Len(Program["ban"]) = Length("ban")  BY <1>5, SMT DEF Length
<1>6. Program["unban"] = <<"unban", "log">>  BY DEF Program, unban_user
<1>26. Len(Program["unban"]) = Length("unban")  BY <1>6, SMT DEF Length
<1>7. Program["revoke"] = <<"log", "revoke">>  BY DEF Program, RevokePunishmentModal
<1>27. Len(Program["revoke"]) = Length("revoke")  BY <1>7, SMT DEF Length
<1>8. Program["timeoutEntry"] = <<"log", "record">>  BY DEF Program
<1>28. Len(Program["timeoutEntry"]) = Length("timeoutEntry")  BY <1>8, SMT DEF Length
<1>9. Program["banEntry"] = <<"log", "record">>  BY DEF Program
<1>29. Len(Program["banEntry"]) = Length("banEntry")  BY <1>9, SMT DEF Length
<1>10. Program["otherEntry"] = <<"log">>  BY DEF Program
<1>30. Len(Program["otherEntry"]) = Length("otherEntry")  BY <1>10, SMT DEF Length
<1> QED  BY <1>21, <1>22, <1>23, <1>24, <1>25, <1>26, <1>27, <1>28, <1>29, <1>30 DEF Kinds

Started1(j) == job[j].kind # "none" => job[j].at >= 1

\* At which step of which program each call is made.
LEMMA Calls ==
  ASSUME job \in [Jobs -> Job], NEW j \in Jobs, Started1(j)
  PROVE  /\ job[j].kind \in Kinds \cup {"none"} /\ job[j].at \in 0 .. 7
         /\ Running(j) <=> job[j].kind # "none" /\ job[j].at <= Length(job[j].kind)
         /\ At(j, "strip") <=> job[j].kind = "mute" /\ job[j].at = 1
         /\ At(j, "timeout") <=> job[j].kind = "mute" /\ job[j].at = 2
         /\ At(j, "insert") <=> \/ job[j].kind = "warn" /\ job[j].at = 1
                                \/ job[j].kind \in {"mute", "kick", "ban"} /\ job[j].at = 3
         /\ At(j, "tell") <=> \/ job[j].kind \in {"kick", "ban"} /\ job[j].at = 1
                              \/ job[j].kind = "warn" /\ job[j].at = 2
                              \/ job[j].kind = "mute" /\ job[j].at = 4
         /\ At(j, "log") <=> \/ job[j].kind \in {"revoke", "timeoutEntry", "banEntry", "otherEntry"} /\ job[j].at = 1
                             \/ job[j].kind = "unban" /\ job[j].at = 2
                             \/ job[j].kind = "warn" /\ job[j].at = 3
                             \/ job[j].kind \in {"unmute", "kick", "ban"} /\ job[j].at = 4
                             \/ job[j].kind = "mute" /\ job[j].at = 5
         /\ At(j, "escalation") <=> \/ job[j].kind = "warn" /\ job[j].at = 4
                                    \/ job[j].kind = "mute" /\ job[j].at = 6
         /\ At(j, "lookup") <=> job[j].kind = "unmute" /\ job[j].at = 1
         /\ At(j, "deactivate") <=> job[j].kind = "unmute" /\ job[j].at = 2
         /\ At(j, "lift") <=> job[j].kind = "unmute" /\ job[j].at = 3
         /\ At(j, "kick") <=> job[j].kind = "kick" /\ job[j].at = 2
         /\ At(j, "ban") <=> job[j].kind = "ban" /\ job[j].at = 2
         /\ At(j, "unban") <=> job[j].kind = "unban" /\ job[j].at = 1
         /\ At(j, "revoke") <=> job[j].kind = "revoke" /\ job[j].at = 2
         /\ At(j, "record") <=> job[j].kind \in {"timeoutEntry", "banEntry"} /\ job[j].at = 2
<1>1. job[j].kind \in Kinds \cup {"none"} /\ job[j].at \in 0 .. 7  BY Kinds1 DEF Job
<1>2. Running(j) <=> job[j].kind # "none" /\ job[j].at <= Length(job[j].kind)
  BY <1>1, Lengths DEF Running
<1>3. CASE job[j].kind = "none"
  <2>1. ~Running(j)  BY <1>3 DEF Running
  <2> QED  BY <1>1, <1>2, <1>3, <2>1 DEF At
<1>4. CASE job[j].kind \in {"warn", "mute", "unmute"}
  <2>1. job[j].at >= 1  BY <1>4 DEF Started1
  <2>2. CASE job[j].kind = "warn"
    <3>1. Program[job[j].kind] = <<"insert", "tell", "log", "escalation">>  BY <2>2 DEF Program, warn_user
    <3> QED  BY <1>1, <1>2, <2>1, <2>2, <3>1 DEF At, Length
  <2>3. CASE job[j].kind = "mute"
    <3>1. Program[job[j].kind] = <<"strip", "timeout", "insert", "tell", "log", "escalation">>
      BY <2>3 DEF Program, mute_user
    <3> QED  BY <1>1, <1>2, <2>1, <2>3, <3>1 DEF At, Length
  <2>4. CASE job[j].kind = "unmute"
    <3>1. Program[job[j].kind] = <<"lookup", "deactivate", "lift", "log">>  BY <2>4 DEF Program, unmute_user
    <3> QED  BY <1>1, <1>2, <2>1, <2>4, <3>1 DEF At, Length
  <2> QED  BY <1>4, <2>2, <2>3, <2>4
<1>5. CASE job[j].kind \in {"kick", "ban", "unban", "revoke"}
  <2>1. job[j].at >= 1  BY <1>5 DEF Started1
  <2>2. CASE job[j].kind = "kick"
    <3>1. Program[job[j].kind] = <<"tell", "kick", "insert", "log">>  BY <2>2 DEF Program, kick_user
    <3> QED  BY <1>1, <1>2, <2>1, <2>2, <3>1 DEF At, Length
  <2>3. CASE job[j].kind = "ban"
    <3>1. Program[job[j].kind] = <<"tell", "ban", "insert", "log">>  BY <2>3 DEF Program, ban_user
    <3> QED  BY <1>1, <1>2, <2>1, <2>3, <3>1 DEF At, Length
  <2>4. CASE job[j].kind = "unban"
    <3>1. Program[job[j].kind] = <<"unban", "log">>  BY <2>4 DEF Program, unban_user
    <3> QED  BY <1>1, <1>2, <2>1, <2>4, <3>1 DEF At, Length
  <2>5. CASE job[j].kind = "revoke"
    <3>1. Program[job[j].kind] = <<"log", "revoke">>  BY <2>5 DEF Program, RevokePunishmentModal
    <3> QED  BY <1>1, <1>2, <2>1, <2>5, <3>1 DEF At, Length
  <2> QED  BY <1>5, <2>2, <2>3, <2>4, <2>5
<1>6. CASE job[j].kind \in EntryKinds
  <2>1. job[j].at >= 1  BY <1>6 DEF Started1, EntryKinds
  <2>2. CASE job[j].kind \in {"timeoutEntry", "banEntry"}
    <3>1. Program[job[j].kind] = <<"log", "record">>  BY <2>2 DEF Program
    <3> QED  BY <1>1, <1>2, <2>1, <2>2, <3>1 DEF At, Length
  <2>3. CASE job[j].kind = "otherEntry"
    <3>1. Program[job[j].kind] = <<"log">>  BY <2>3 DEF Program
    <3> QED  BY <1>1, <1>2, <2>1, <2>3, <3>1 DEF At, Length
  <2> QED  BY <1>6, <2>2, <2>3 DEF EntryKinds
<1> QED  BY <1>1, <1>3, <1>4, <1>5, <1>6 DEF Kinds, EntryKinds

Others(j) == \A i \in Jobs \ {j} : job'[i] = job[i]
LEMMA Advances ==
  ASSUME job \in [Jobs -> Job], NEW j \in Jobs, Started1(j), Running(j)
  PROVE  /\ Advance(j) \in [Jobs -> Job] /\ \A i \in Jobs \ {j} : Advance(j)[i] = job[i]
         /\ Advance(j)[j].kind = job[j].kind /\ Advance(j)[j].at = job[j].at + 1
         /\ Advance(j)[j].row = job[j].row /\ Advance(j)[j].answer = job[j].answer
         /\ Advance(j)[j].lifted = job[j].lifted /\ Advance(j)[j].above = job[j].above
<1>1. job[j].at + 1 \in 0 .. 7  BY Calls DEF Length
<1> QED  BY <1>1 DEF Advance, Job

LEMMA Leaves ==
  ASSUME job \in [Jobs -> Job], NEW j \in Jobs, Started1(j), Running(j),
         NEW answer \in {"none", "ok", "no", "escalate"}
  PROVE  /\ Leave(j, answer) \in [Jobs -> Job] /\ \A i \in Jobs \ {j} : Leave(j, answer)[i] = job[i]
         /\ Leave(j, answer)[j].kind = job[j].kind /\ Leave(j, answer)[j].at = Length(job[j].kind) + 1
         /\ Leave(j, answer)[j].row = job[j].row /\ Leave(j, answer)[j].answer = answer
         /\ Leave(j, answer)[j].lifted = job[j].lifted
<1>1. Length(job[j].kind) + 1 \in 0 .. 7  BY DEF Length
<1>2. Len(Program[job[j].kind]) = Length(job[j].kind)  BY Calls, Lengths
<1> QED  BY <1>1, <1>2 DEF Leave, Job

-----------------------------------------------------------------------------
(* The invariant.  It is said of kind and at alone, of which Calls gives     *)
(* the meaning.                                                             *)

Basic ==
    /\ rows \in Seq(Row)
    /\ discord \in [timeout : {"none", "bot", "person"}, banned : BOOLEAN, here : BOOLEAN, admin : BOOLEAN]
    /\ entries \in Seq([kind : EntryKinds, left : 0 .. 2])
    /\ job \in [Jobs -> Job]
    /\ reserved \subseteq {"warn", "mute", "kick", "ban"}
    /\ faults \in 0 .. MaxFaults

\* A job that has ended has an answer, one that runs has none; what it took from a table is there.
JobOK(j) ==
    /\ Started1(j)
    /\ job[j].kind = "none" => job[j].answer = "none"
    /\ job[j].kind # "none" => (job[j].answer = "none" <=> job[j].at <= Length(job[j].kind))
    /\ job[j].kind \in EntryKinds => job[j].row \in DOMAIN entries
    /\ job[j].kind = "revoke" => job[j].row \in DOMAIN rows
    /\ job[j].kind = "unmute" /\ job[j].at >= 2 /\ job[j].answer # "no" =>
         job[j].row \in DOMAIN rows /\ rows[job[j].row].type = "mute"
    /\ job[j].lifted => job[j].kind = "unmute" /\ job[j].at >= 4

Formed == Basic /\ \A j \in Jobs : JobOK(j)

Moving(j) == job[j].kind = "unmute" /\ job[j].at \in {3, 4}
Lifts1(j, i) ==
    /\ job[j].kind \in {"unmute", "revoke"} /\ job[j].row = i
    /\ job[j].answer = "ok" \/ Moving(j)

LiftInv ==
    \A j \in Jobs, i \in DOMAIN rows : Lifts1(j, i) =>
        rows[i].state # "active" /\ \A l \in Jobs : Lifts1(l, i) => l = j

RecordInv == \A i, l \in DOMAIN rows : rows[i].entry = rows[l].entry /\ i # l => rows[i].entry = 0

\* A command between its row and its count.
Counting(j) ==
    \/ job[j].kind = "warn" /\ job[j].at \in 2 .. 4
    \/ job[j].kind = "mute" /\ job[j].at \in 4 .. 6

EscalationInv ==
    faults = 0 => \A k \in {"warn", "mute"} : Cardinality(Actives({k})) >= Threshold =>
        \E j \in Jobs : job[j].kind = k /\ (job[j].answer = "escalate" \/ Counting(j))

\* A command between the timeout and its row, or between the end of a row and that of the timeout.
Owes(j) ==
    \/ job[j].kind \in {"mute", "unmute"} /\ job[j].at = 3
    \/ job[j].kind = "unmute" /\ job[j].at = 4 /\ ~job[j].lifted
    \/ GaveUp(j)

MutedInv ==
    faults = 0 /\ discord.timeout = "bot" => Actives({"mute"}) # {} \/ \E j \in Jobs : Owes(j)

-----------------------------------------------------------------------------
(* What a step may do.                                                     *)

Grow ==
    /\ DOMAIN rows \subseteq DOMAIN rows' /\ DOMAIN entries \subseteq DOMAIN entries'
    /\ \A i \in DOMAIN rows :
         /\ rows'[i].type = rows[i].type /\ rows'[i].entry = rows[i].entry
         /\ rows[i].state # "active" => rows'[i].state # "active"
    /\ faults' # 0 \/ faults = 0

New == DOMAIN rows' \ DOMAIN rows
Adds(j) ==
    \A i \in New :
        /\ \A l \in New : l = i
        /\ rows'[i].entry = 0 \/ ~ \E l \in DOMAIN rows : rows[l].entry = rows'[i].entry
        /\ rows'[i].type \in {"warn", "mute"} => job'[j].kind = rows'[i].type /\ Counting(j)'

LiftMove(j) ==
    \A i \in DOMAIN rows' : Lifts1(j, i)' =>
        \/ Lifts1(j, i)
        \/ i \in DOMAIN rows /\ rows[i].state = "active" /\ rows'[i].state # "active"

CountMove(j) ==
    Counting(j) =>
        /\ job'[j].kind = job[j].kind
        /\ \/ faults' # 0 \/ Counting(j)' \/ job'[j].answer = "escalate"
           \/ rows' = rows /\ ~(Cardinality(Counted(job[j].kind)) >= Threshold)

MuteMove(j) ==
    faults' = 0 /\ discord'.timeout = "bot" =>
        /\ discord.timeout # "bot" \/ Owes(j) => Owes(j)' \/ Actives({"mute"})' # {}
        /\ \A i \in Actives({"mute"}) : i \in Actives({"mute"})' \/ Owes(j)'

Moved(j) ==
    /\ Basic' /\ Grow /\ (\A i \in Jobs \ {j} : job'[i] = job[i]) /\ job[j].answer = "none"
    /\ JobOK(j)' /\ Adds(j) /\ LiftMove(j) /\ CountMove(j) /\ MuteMove(j)

LEMMA FormedIsTyped == Formed => TypeOK
<1> SUFFICES ASSUME Formed PROVE TypeOK  OBVIOUS
<1>1. ASSUME NEW j \in Jobs, At(j, "deactivate") \/ At(j, "revoke") PROVE job[j].row \in DOMAIN rows
  <2>1. JobOK(j) /\ job \in [Jobs -> Job]  BY DEF Formed, Basic
  <2>2. \/ job[j].kind = "unmute" /\ job[j].at = 2
        \/ job[j].kind = "revoke"  BY <1>1, <2>1, Calls DEF JobOK
  <2> QED  BY <2>1, <2>2 DEF JobOK, Length
<1> QED  BY <1>1 DEF Formed, Basic, TypeOK, JobOK

LEMMA SameRows ==
  ASSUME rows' = rows, entries' = entries, faults' = faults \/ (faults \in Nat /\ faults' = faults + 1)
  PROVE  Grow /\ New = {}
BY DEF Grow, New

\* A handler that starts: with its first step, or ended by the check of the order of roles.
LEMMA Starts ==
  ASSUME Formed, NEW j \in Jobs, job[j] = Idle, NEW r \in Job, job' = [job EXCEPT ![j] = r],
         rows' = rows, discord' = discord, reserved' = reserved, faults' = faults,
         entries' \in Seq([kind : EntryKinds, left : 0 .. 2]), DOMAIN entries' = DOMAIN entries,
         r.kind \in Kinds, r.lifted = FALSE,
         \/ r.at = 1 /\ r.answer = "none"
         \/ r.kind \in {"warn", "mute", "kick", "ban"} /\ r.at = Length(r.kind) + 1 /\ r.answer = "no",
         r.kind \in EntryKinds => r.row \in DOMAIN entries,
         r.kind = "revoke" => r.row \in DOMAIN rows
  PROVE  Moved(j)
<1>1. job' \in [Jobs -> Job] /\ job'[j] = r /\ \A i \in Jobs \ {j} : job'[i] = job[i]
  BY DEF Formed, Basic
<1>2. Basic'  BY <1>1 DEF Formed, Basic
<1>3. Grow /\ New = {}  BY DEF Grow, New
<1>4. job[j].answer = "none" /\ job[j].kind = "none" /\ job[j].lifted = FALSE  BY DEF Idle
<1>5. r.at \in Nat /\ r.at >= 1 /\ (r.answer = "none" <=> r.at <= Length(r.kind)) /\ r.kind # "none"
  BY DEF Length, Kinds
<1>6. JobOK(j)'
  <2>1. r.kind = "unmute" => r.at = 1  OBVIOUS
  <2> QED  BY <1>1, <1>5, <2>1 DEF JobOK, Started1
<1>7. Adds(j)  BY <1>3 DEF Adds
<1>8. LiftMove(j)  BY <1>1 DEF LiftMove, Lifts1, Moving
<1>9. CountMove(j)  BY <1>4 DEF CountMove, Counting
<1>10. MuteMove(j)
  <2>1. ~Owes(j)  BY <1>4 DEF Owes, GaveUp
  <2> QED  BY <2>1 DEF MuteMove, Actives
<1> QED  BY <1>1, <1>2, <1>3, <1>4, <1>6, <1>7, <1>8, <1>9, <1>10 DEF Moved

Beginning(k, i) == [Idle EXCEPT !.kind = k, !.at = 1, !.row = i]
LEMMA Begun ==
  ASSUME NEW k \in Kinds, NEW i \in Nat
  PROVE  LET r == Beginning(k, i)
         IN  r \in Job /\ r.kind = k /\ r.at = 1 /\ r.answer = "none" /\ r.lifted = FALSE /\ r.row = i
<1> DEFINE r1 == [Idle EXCEPT !.kind = k]
           r2 == [r1 EXCEPT !.at = 1]
           r3 == [r2 EXCEPT !.row = i]
<1>1. Idle \in Job  BY DEF Idle, Job
<1>2. r1 \in Job  BY <1>1, Kinds1 DEF Job
<1>3. r2 \in Job
  <2> HIDE DEF r1
  <2> QED  BY <1>2 DEF Job
<1>4. r3 \in Job
  <2> HIDE DEF r2
  <2> QED  BY <1>3 DEF Job
<1>5. /\ r3.kind = k /\ r3.at = 1 /\ r3.row = i /\ r3.lifted = Idle.lifted /\ r3.answer = Idle.answer
  BY <1>1 DEF Job
<1>6. Idle.lifted = FALSE /\ Idle.answer = "none"  BY DEF Idle
<1> QED  BY <1>4, <1>5, <1>6, Zenon DEF Beginning

LEMMA Ended ==
  ASSUME NEW k \in Kinds, NEW above \in BOOLEAN
  PROVE  LET r == [kind |-> k, at |-> Length(k) + 1, row |-> 0, above |-> above, lifted |-> FALSE, answer |-> "no"]
         IN  r \in Job /\ r.kind = k /\ r.at = Length(k) + 1 /\ r.answer = "no" /\ r.lifted = FALSE
<1>1. Length(k) + 1 \in 0 .. 7  BY DEF Length
<1> QED  BY <1>1, Kinds1 DEF Job

LEMMA RunMoves == ASSUME Formed, NEW j \in Jobs, Run(j) \/ Menu(j) PROVE Moved(j)
<1>1. PICK k \in Commands \ {"revoke"}, above \in BOOLEAN : job' = Started(j, k, above)
  BY DEF Run, Menu
<1>2. k \in Kinds /\ k # "revoke" /\ k \notin EntryKinds  BY <1>1, PunishmentsAssumption DEF Kinds, EntryKinds
<1> DEFINE start == [Idle EXCEPT !.kind = k, !.at = 1, !.above = above]
           r == IF k \in Checked /\ ~above /\ discord.here
                THEN [start EXCEPT !.at = Len(Program[k]) + 1, !.answer = "no"] ELSE start
<1>3. job[j] = Idle /\ job' = [job EXCEPT ![j] = r]  BY <1>1 DEF Run, Menu, Started
<1>4. rows' = rows /\ discord' = discord /\ reserved' = reserved /\ faults' = faults /\ entries' = entries
  BY DEF Run, Menu
<1>5. Len(Program[k]) = Length(k)  BY <1>2, Lengths
<1>6. entries \in Seq([kind : EntryKinds, left : 0 .. 2])  BY DEF Formed, Basic
<1>7. CASE k \in Checked /\ ~above /\ discord.here
  <2> DEFINE q == [kind |-> k, at |-> Length(k) + 1, row |-> 0, above |-> above, lifted |-> FALSE, answer |-> "no"]
  <2>1. r = q  BY <1>5, <1>7 DEF Idle
  <2>2. q \in Job /\ q.kind = k /\ q.at = Length(k) + 1 /\ q.answer = "no" /\ q.lifted = FALSE
    BY <1>2, Ended
  <2> HIDE DEF q, r, start
  <2> QED  BY <1>2, <1>3, <1>4, <1>6, <1>7, <2>1, <2>2, Starts DEF Checked
<1>8. CASE ~(k \in Checked /\ ~above /\ discord.here)
  <2> DEFINE q == [kind |-> k, at |-> 1, row |-> 0, above |-> above, lifted |-> FALSE, answer |-> "none"]
  <2>1. r = q  BY <1>8 DEF Idle
  <2>2. q \in Job /\ q.kind = k /\ q.at = 1 /\ q.answer = "none" /\ q.lifted = FALSE  BY <1>2, Kinds1 DEF Job
  <2> HIDE DEF q, r, start
  <2> QED  BY <1>2, <1>3, <1>4, <1>6, <2>1, <2>2, Starts
<1> QED  BY <1>7, <1>8

LEMMA PickMoves == ASSUME Formed, NEW j \in Jobs, Pick(j) PROVE Moved(j)
<1>1. PICK i \in DOMAIN rows : job' = [job EXCEPT ![j] = [Idle EXCEPT !.kind = "revoke", !.at = 1, !.row = i]]
  BY DEF Pick
<1> DEFINE r == Beginning("revoke", i)
<1>2. i \in Nat /\ "revoke" \in Kinds /\ "revoke" \notin EntryKinds
  BY <1>1 DEF Formed, Basic, Kinds, EntryKinds
<1>3. r \in Job /\ r.kind = "revoke" /\ r.at = 1 /\ r.answer = "none" /\ r.lifted = FALSE /\ r.row = i
  BY <1>2, Begun
<1>4. rows' = rows /\ discord' = discord /\ reserved' = reserved /\ faults' = faults /\ entries' = entries
      /\ job[j] = Idle /\ entries \in Seq([kind : EntryKinds, left : 0 .. 2])
  BY DEF Pick, Formed, Basic
<1>5. job' = [job EXCEPT ![j] = r]  BY <1>1 DEF Beginning
<1> HIDE DEF r
<1> QED  BY <1>1, <1>2, <1>3, <1>4, <1>5, Starts

LEMMA DeliverMoves == ASSUME Formed, NEW j \in Jobs, Deliver(j) PROVE Moved(j)
<1>1. PICK e \in DOMAIN entries :
        /\ entries[e].left > 0 /\ entries' = [entries EXCEPT ![e].left = @ - 1]
        /\ job' = [job EXCEPT ![j] = [Idle EXCEPT !.kind = entries[e].kind, !.at = 1, !.row = e]]
  BY DEF Deliver
<1> DEFINE r == Beginning(entries[e].kind, e)
           E == [kind : EntryKinds, left : 0 .. 2]
<1>2. e \in Nat /\ entries \in Seq(E) /\ entries[e] \in E
  <2>1. entries \in Seq(E)  BY DEF Formed, Basic
  <2> HIDE DEF E
  <2> QED  BY <1>1, <2>1
<1>3. entries[e].kind \in EntryKinds /\ entries[e].kind \in Kinds /\ entries[e].kind # "revoke"
  BY <1>2 DEF EntryKinds, Kinds
<1>4. r \in Job /\ r.kind = entries[e].kind /\ r.at = 1 /\ r.answer = "none" /\ r.lifted = FALSE /\ r.row = e
  BY <1>2, <1>3, Begun
<1>5. entries' \in Seq(E) /\ DOMAIN entries' = DOMAIN entries
  <2>1. entries[e].left - 1 \in 0 .. 2  BY <1>1, <1>2
  <2>2. [entries[e] EXCEPT !.left = @ - 1] \in E  BY <1>2, <2>1
  <2>3. entries' = [entries EXCEPT ![e] = [entries[e] EXCEPT !.left = @ - 1]]  BY <1>1
  <2> QED  BY <1>1, <1>2, <2>2, <2>3
<1>6. rows' = rows /\ discord' = discord /\ reserved' = reserved /\ faults' = faults /\ job[j] = Idle
  BY DEF Deliver
<1>7. job' = [job EXCEPT ![j] = r]  BY <1>1 DEF Beginning
<1> HIDE DEF r
<1> QED  BY <1>1, <1>3, <1>4, <1>5, <1>6, <1>7, Starts

-----------------------------------------------------------------------------
(* The steps of a handler that runs.                                       *)

Went(j) ==
    /\ job' \in [Jobs -> Job] /\ \A i \in Jobs \ {j} : job'[i] = job[i]
    /\ job'[j].kind = job[j].kind /\ job'[j].at = job[j].at + 1 /\ job'[j].row = job[j].row
    /\ job'[j].answer = "none" /\ job'[j].lifted = job[j].lifted

EndedBy(j, answer) ==
    /\ job' \in [Jobs -> Job] /\ \A i \in Jobs \ {j} : job'[i] = job[i]
    /\ job'[j].kind = job[j].kind /\ job'[j].at = Length(job[j].kind) + 1 /\ job'[j].row = job[j].row
    /\ job'[j].answer = answer /\ job'[j].lifted = job[j].lifted

LEMMA Runs ==
  ASSUME Formed, NEW j \in Jobs, Running(j)
  PROVE  /\ JobOK(j) /\ Started1(j) /\ job \in [Jobs -> Job] /\ job[j].answer = "none"
         /\ job[j].kind \in Kinds /\ job[j].at \in 1 .. 6
<1>1. JobOK(j) /\ Started1(j) /\ job \in [Jobs -> Job]  BY DEF Formed, Basic, JobOK
<1>2. /\ job[j].kind # "none" /\ job[j].at <= Length(job[j].kind)
      /\ job[j].kind \in Kinds \cup {"none"} /\ job[j].at \in 0 .. 7  BY <1>1, Calls
<1> QED  BY <1>1, <1>2 DEF JobOK, Started1, Length

LEMMA GoesOn == ASSUME Formed, NEW j \in Jobs, Running(j), job' = Advance(j) PROVE Went(j)
<1>1. job \in [Jobs -> Job] /\ Started1(j) /\ job[j].answer = "none"  BY Runs
<1> QED  BY <1>1, Advances DEF Went

LEMMA Ends ==
  ASSUME Formed, NEW j \in Jobs, Running(j), NEW answer \in {"ok", "no"}, job' = Leave(j, answer)
  PROVE  EndedBy(j, answer)
<1>1. job \in [Jobs -> Job] /\ Started1(j)  BY Runs
<1> QED  BY <1>1, Leaves DEF EndedBy

LEMMA Steady ==
  ASSUME Formed, NEW j \in Jobs, Running(j), Basic', rows' = rows, DOMAIN entries \subseteq DOMAIN entries',
         faults' = faults \/ faults' = faults + 1, \A i \in Jobs \ {j} : job'[i] = job[i],
         JobOK(j)', LiftMove(j), CountMove(j),
         faults' = 0 /\ discord'.timeout = "bot" /\ (discord.timeout # "bot" \/ Owes(j)) => Owes(j)'
  PROVE  Moved(j)
<1>1. Grow /\ New = {}  BY DEF Grow, New, Formed, Basic
<1>2. Adds(j)  BY <1>1 DEF Adds
<1>3. MuteMove(j)  BY DEF MuteMove, Actives
<1>4. job[j].answer = "none"  BY Runs
<1> QED  BY <1>1, <1>2, <1>3, <1>4 DEF Moved

\* A step after which the handler goes on, and which touches neither the rows nor the timeout.
LEMMA Passing ==
  ASSUME Formed, NEW j \in Jobs, Running(j), Basic', rows' = rows, DOMAIN entries \subseteq DOMAIN entries',
         faults' = faults \/ faults' = faults + 1, Went(j), job[j].at + 1 <= Length(job[j].kind),
         job[j].kind # "unmute", job[j].kind = "mute" => job[j].at # 3 /\ job[j].at # 6,
         job[j].kind = "warn" => job[j].at # 4,
         faults' = 0 /\ discord'.timeout = "bot" /\ discord.timeout # "bot" => Owes(j)'
  PROVE  Moved(j)
<1>1. JobOK(j) /\ job[j].answer = "none" /\ job[j].kind \in Kinds /\ job[j].at \in 1 .. 6  BY Runs
<1>2. JobOK(j)'  BY <1>1 DEF Went, JobOK, Started1
<1>3. LiftMove(j)  BY <1>1 DEF LiftMove, Lifts1, Moving, Went
<1>4. CountMove(j)  BY <1>1 DEF CountMove, Counting, Went
<1>5. ~Owes(j)  BY <1>1 DEF Owes, GaveUp
<1> QED  BY <1>2, <1>3, <1>4, <1>5, Steady DEF Went

\* A step that ends its handler with an answer other than a lifted row.
LEMMA Passed ==
  ASSUME Formed, NEW j \in Jobs, Running(j), Basic', rows' = rows, DOMAIN entries \subseteq DOMAIN entries',
         faults' = faults \/ faults' = faults + 1, NEW answer \in {"ok", "no"}, EndedBy(j, answer),
         answer = "no" \/ job[j].kind \notin {"unmute", "revoke"} \/ (job[j].kind = "unmute" /\ job[j].at = 4),
         job[j].kind = "mute" /\ job[j].at = 3 => discord'.timeout # "bot",
         job[j].kind = "unmute" => discord' = discord /\ job[j].at # 3 /\ (job[j].at = 4 => answer = "ok"),
         Counting(j) => faults' # 0,
         faults' = 0 /\ discord'.timeout = "bot" => discord.timeout = "bot"
  PROVE  Moved(j)
<1>1. JobOK(j) /\ job[j].answer = "none" /\ job[j].kind \in Kinds /\ job[j].at \in 1 .. 6  BY Runs
<1>2. Length(job[j].kind) \in 1 .. 6 /\ (job[j].kind = "unmute" => Length(job[j].kind) = 4)  BY DEF Length
<1>3. JobOK(j)'
  <2>1. job'[j].kind \in EntryKinds => job'[j].row \in DOMAIN entries'  BY <1>1 DEF EndedBy, JobOK
  <2>2. /\ job'[j].answer # "none" /\ job'[j].kind # "none" /\ job'[j].at > Length(job'[j].kind)
        /\ job'[j].at >= 1 /\ job'[j].at >= job[j].at
    <3>1. job[j].at <= Length(job[j].kind)  BY <1>1 DEF JobOK, Kinds
    <3> QED  BY <1>1, <1>2, <3>1 DEF EndedBy, Kinds
  <2>3. job[j].kind = "unmute" /\ answer # "no" => job[j].at = 4  OBVIOUS
  <2>4. job'[j].kind = "unmute" /\ job'[j].answer # "no" =>
          job'[j].row \in DOMAIN rows' /\ rows'[job'[j].row].type = "mute"
    BY <1>1, <2>3 DEF EndedBy, JobOK
  <2>5. job'[j].lifted => job'[j].kind = "unmute" /\ job'[j].at >= 4
    BY <1>1, <1>2 DEF EndedBy, JobOK
  <2>6. job'[j].kind = "revoke" => job'[j].row \in DOMAIN rows'  BY <1>1 DEF EndedBy, JobOK
  <2>7. ~(job'[j].at <= Length(job'[j].kind))  BY <1>2, <2>2 DEF EndedBy
  <2>8. Started1(j)'  BY <2>2 DEF Started1
  <2>9. job'[j].kind # "none" => (job'[j].answer = "none" <=> job'[j].at <= Length(job'[j].kind))  BY <2>2, <2>7
  <2>10. job'[j].kind = "none" => job'[j].answer = "none"  BY <2>2
  <2>11. job'[j].kind = "unmute" /\ job'[j].at >= 2 /\ job'[j].answer # "no" =>
           job'[j].row \in DOMAIN rows' /\ rows'[job'[j].row].type = "mute"  BY <2>4
  <2> QED  BY <2>1, <2>5, <2>6, <2>8, <2>9, <2>10, <2>11 DEF JobOK
<1>4. LiftMove(j)  BY <1>1, <1>2 DEF LiftMove, Lifts1, Moving, EndedBy
<1>5. CountMove(j)  BY <1>1 DEF CountMove, EndedBy
<1>6. Owes(j) /\ discord'.timeout = "bot" => Owes(j)'
  <2>1. SUFFICES ASSUME Owes(j), discord'.timeout = "bot" PROVE Owes(j)'  OBVIOUS
  <2>2. job[j].kind = "unmute" /\ job[j].at = 4 /\ ~job[j].lifted  BY <1>1, <2>1 DEF Owes, GaveUp
  <2>3. answer = "ok"  BY <2>2
  <2> QED  BY <2>2, <2>3 DEF Owes, GaveUp, EndedBy
<1> QED  BY <1>3, <1>4, <1>5, <1>6, Steady DEF EndedBy

LEMMA StripMoves == ASSUME Formed, NEW j \in Jobs, Strip(j) PROVE Moved(j)
<1>1. Running(j) /\ rows' = rows /\ entries' = entries /\ reserved' = reserved  BY DEF Strip, At
<1>2. job[j].kind = "mute" /\ job[j].at = 1 /\ Length(job[j].kind) = 6
  BY <1>1, Runs, Calls DEF Strip, Length
<1>3. CASE discord' = [discord EXCEPT !.admin = @ /\ ~Removable] /\ job' = Advance(j) /\ faults' = faults
  <2>1. Went(j)  BY <1>1, <1>3, GoesOn
  <2>2. Basic' /\ discord'.timeout = discord.timeout  BY <1>1, <1>3, <2>1 DEF Formed, Basic, Went
  <2> QED  BY <1>1, <1>2, <1>3, <2>1, <2>2, Passing
<1>4. CASE Fail /\ job' = Leave(j, "no") /\ discord' = discord
  <2>1. EndedBy(j, "no")  BY <1>1, <1>4, Ends
  <2>2. Basic' /\ faults' = faults + 1 /\ faults' # 0
    BY <1>1, <1>4, <2>1, PunishmentsAssumption DEF Formed, Basic, EndedBy, Fail
  <2>3. ~Counting(j)  BY <1>2 DEF Counting
  <2> QED  BY <1>1, <1>2, <1>4, <2>1, <2>2, <2>3, Passed
<1> QED  BY <1>3, <1>4 DEF Strip

LEMMA Entries ==
  ASSUME entries \in Seq([kind : EntryKinds, left : 0 .. 2]), NEW kind \in EntryKinds, entries' = Entry(kind)
  PROVE  entries' \in Seq([kind : EntryKinds, left : 0 .. 2]) /\ DOMAIN entries \subseteq DOMAIN entries'
<1> DEFINE E == [kind : EntryKinds, left : 0 .. 2]
           e == [kind |-> kind, left |-> 2]
<1>1. e \in E  OBVIOUS
<1>2. entries' = Append(entries, e) /\ entries \in Seq(E)  BY DEF Entry
<1>3. entries' \in Seq(E) /\ DOMAIN entries \subseteq DOMAIN entries'
  <2> HIDE DEF E, e
  <2> QED  BY <1>1, <1>2
<1> QED  BY <1>3

LEMMA TimeoutMoves == ASSUME Formed, NEW j \in Jobs, Timeout(j) PROVE Moved(j)
<1>1. Running(j) /\ rows' = rows /\ reserved' = reserved  BY DEF Timeout, At
<1>2. job[j].kind = "mute" /\ job[j].at = 2 /\ Length(job[j].kind) = 6
  BY <1>1, Runs, Calls DEF Timeout, Length
<1>3. CASE /\ discord' = [discord EXCEPT !.timeout = "bot"]
           /\ entries' = Entry(IF discord.timeout = "none" THEN "timeoutEntry" ELSE "otherEntry")
           /\ job' = Advance(j) /\ faults' = faults
  <2>1. Went(j)  BY <1>1, <1>3, GoesOn
  <2>2. entries' \in Seq([kind : EntryKinds, left : 0 .. 2]) /\ DOMAIN entries \subseteq DOMAIN entries'
    <3>1. (IF discord.timeout = "none" THEN "timeoutEntry" ELSE "otherEntry") \in EntryKinds  BY DEF EntryKinds
    <3> QED  BY <1>3, <3>1, Entries DEF Formed, Basic
  <2>3. Basic'  BY <1>1, <1>3, <2>1, <2>2 DEF Formed, Basic, Went
  <2>4. Owes(j)'  BY <1>2, <2>1 DEF Owes, Went
  <2> QED  BY <1>1, <1>2, <1>3, <2>1, <2>2, <2>3, <2>4, Passing
<1>4. CASE /\ IF discord.here /\ ~discord.admin THEN Fail ELSE UNCHANGED faults
           /\ job' = Leave(j, "no") /\ discord' = discord /\ entries' = entries
  <2>1. EndedBy(j, "no")  BY <1>1, <1>4, Ends
  <2>2. Basic' /\ (faults' = faults \/ faults' = faults + 1)
    BY <1>1, <1>4, <2>1, PunishmentsAssumption DEF Formed, Basic, EndedBy, Fail
  <2>3. ~Counting(j)  BY <1>2 DEF Counting
  <2> QED  BY <1>1, <1>2, <1>4, <2>1, <2>2, <2>3, Passed
<1> QED  BY <1>3, <1>4 DEF Timeout

LEMMA TellMoves == ASSUME Formed, NEW j \in Jobs, Tell(j) PROVE Moved(j)
<1>1. /\ Running(j) /\ rows' = rows /\ entries' = entries /\ discord' = discord /\ faults' = faults
      /\ reserved' = reserved \cup {job[j].kind} /\ job' = Advance(j)
  BY DEF Tell, At
<1>2. \/ job[j].kind \in {"kick", "ban"} /\ job[j].at = 1
      \/ job[j].kind = "warn" /\ job[j].at = 2
      \/ job[j].kind = "mute" /\ job[j].at = 4
  BY <1>1, Runs, Calls DEF Tell
<1>3. Went(j)  BY <1>1, GoesOn
<1>4. Basic'
  <2>1. reserved' \subseteq {"warn", "mute", "kick", "ban"}  BY <1>1, <1>2 DEF Formed, Basic
  <2> QED  BY <1>1, <1>3, <2>1 DEF Formed, Basic, Went
<1>5. job[j].at + 1 <= Length(job[j].kind)  BY <1>2 DEF Length
<1> QED  BY <1>1, <1>2, <1>3, <1>4, <1>5, Passing

LEMMA ExpelMoves ==
  ASSUME Formed, NEW j \in Jobs, NEW step \in {"kick", "ban", "unban"}, Expel(j, step)
  PROVE  Moved(j)
<1>1. Running(j) /\ rows' = rows /\ reserved' = reserved  BY DEF Expel, At
<1>2. \/ job[j].kind \in {"kick", "ban"} /\ job[j].at = 2
      \/ job[j].kind = "unban" /\ job[j].at = 1
  BY <1>1, Runs, Calls DEF Expel
<1>3. CASE /\ discord' = Outcome[step] /\ job' = Advance(j) /\ faults' = faults
           /\ entries' = Entry(IF step = "ban" THEN "banEntry" ELSE "otherEntry")
  <2>1. Went(j)  BY <1>1, <1>3, GoesOn
  <2>2. entries' \in Seq([kind : EntryKinds, left : 0 .. 2]) /\ DOMAIN entries \subseteq DOMAIN entries'
    <3>1. (IF step = "ban" THEN "banEntry" ELSE "otherEntry") \in EntryKinds  BY DEF EntryKinds
    <3> QED  BY <1>3, <3>1, Entries DEF Formed, Basic
  <2>3. discord' \in [timeout : {"none", "bot", "person"}, banned : BOOLEAN, here : BOOLEAN, admin : BOOLEAN]
        /\ discord'.timeout = discord.timeout
    <3> DEFINE D == [timeout : {"none", "bot", "person"}, banned : BOOLEAN, here : BOOLEAN, admin : BOOLEAN]
    <3>1. discord \in D  BY DEF Formed, Basic
    <3>2. CASE step = "kick"
      <4>1. discord' = [discord EXCEPT !.here = FALSE]  BY <1>3, <3>2 DEF Outcome
      <4> QED  BY <3>1, <4>1
    <3>3. CASE step = "ban"
      <4> DEFINE d == [discord EXCEPT !.here = FALSE]
      <4>1. d \in D /\ d.timeout = discord.timeout  BY <3>1
      <4>2. discord' = [d EXCEPT !.banned = TRUE]  BY <1>3, <3>3 DEF Outcome
      <4> HIDE DEF d
      <4> QED  BY <4>1, <4>2
    <3>4. CASE step = "unban"
      <4>1. discord' = [discord EXCEPT !.banned = FALSE]  BY <1>3, <3>4 DEF Outcome
      <4> QED  BY <3>1, <4>1
    <3> QED  BY <3>2, <3>3, <3>4
  <2>4. Basic'  BY <1>1, <1>3, <2>1, <2>2, <2>3 DEF Formed, Basic, Went
  <2>5. job[j].at + 1 <= Length(job[j].kind)  BY <1>2 DEF Length
  <2> QED  BY <1>1, <1>2, <1>3, <2>1, <2>2, <2>3, <2>4, <2>5, Passing
<1>4. CASE /\ IF Possible[step] THEN Fail ELSE UNCHANGED faults
           /\ job' = Leave(j, "no") /\ discord' = discord /\ entries' = entries
  <2>1. EndedBy(j, "no")  BY <1>1, <1>4, Ends
  <2>2. Basic' /\ (faults' = faults \/ faults' = faults + 1)
    BY <1>1, <1>4, <2>1, PunishmentsAssumption DEF Formed, Basic, EndedBy, Fail
  <2>3. ~Counting(j)  BY <1>2 DEF Counting
  <2> QED  BY <1>1, <1>2, <1>4, <2>1, <2>2, <2>3, Passed
<1> QED  BY <1>3, <1>4 DEF Expel

LEMMA LogMoves == ASSUME Formed, NEW j \in Jobs, Log(j) PROVE Moved(j)
<1>1. /\ Running(j) /\ rows' = rows /\ entries' = entries /\ discord' = discord /\ faults' = faults
      /\ reserved' = reserved
      /\ job' = IF Len(Program[job[j].kind]) = job[j].at THEN Leave(j, "ok") ELSE Advance(j)
  BY DEF Log, At
<1>2. \/ job[j].kind \in {"revoke", "timeoutEntry", "banEntry", "otherEntry"} /\ job[j].at = 1
      \/ job[j].kind = "unban" /\ job[j].at = 2
      \/ job[j].kind = "warn" /\ job[j].at = 3
      \/ job[j].kind \in {"unmute", "kick", "ban"} /\ job[j].at = 4
      \/ job[j].kind = "mute" /\ job[j].at = 5
  BY <1>1, Runs, Calls DEF Log
<1>3. Len(Program[job[j].kind]) = Length(job[j].kind)  BY <1>1, Runs, Lengths
<1>4. CASE Length(job[j].kind) = job[j].at
  <2>1. EndedBy(j, "ok")  BY <1>1, <1>3, <1>4, Ends
  <2>2. Basic'  BY <1>1, <2>1 DEF Formed, Basic, EndedBy
  <2>3. job[j].kind \in {"otherEntry", "unban", "unmute", "kick", "ban"} /\ (job[j].kind = "unmute" => job[j].at = 4)
    BY <1>2, <1>4 DEF Length
  <2>4. ~Counting(j)  BY <2>3 DEF Counting
  <2> QED  BY <1>1, <2>1, <2>2, <2>3, <2>4, Passed
<1>5. CASE Length(job[j].kind) # job[j].at
  <2>1. Went(j)  BY <1>1, <1>3, <1>5, GoesOn
  <2>2. Basic'  BY <1>1, <2>1 DEF Formed, Basic, Went
  <2>3. job[j].at + 1 <= Length(job[j].kind) /\ job[j].kind # "unmute"  BY <1>2, <1>5 DEF Length
  <2> QED  BY <1>1, <1>2, <2>1, <2>2, <2>3, Passing
<1> QED  BY <1>4, <1>5

LEMMA LiftMoves == ASSUME Formed, NEW j \in Jobs, Lift(j) PROVE Moved(j)
<1>1. Running(j) /\ rows' = rows /\ reserved' = reserved  BY DEF Lift, At
<1>2. job[j].kind = "unmute" /\ job[j].at = 3 /\ Length(job[j].kind) = 4
  BY <1>1, Runs, Calls DEF Lift, Length
<1>3. JobOK(j) /\ job[j].answer = "none" /\ job \in [Jobs -> Job] /\ Started1(j)  BY <1>1, Runs
<1>5. ASSUME job' \in [Jobs -> Job], \A i \in Jobs \ {j} : job'[i] = job[i], job'[j].kind = "unmute",
             job'[j].at = 4, job'[j].row = job[j].row, job'[j].answer = "none"
      PROVE  JobOK(j)' /\ LiftMove(j) /\ CountMove(j)
  <2>1. JobOK(j)'
    <3>1. job[j].row \in DOMAIN rows /\ rows[job[j].row].type = "mute"  BY <1>2, <1>3 DEF JobOK
    <3>2. Length(job'[j].kind) = 4  BY <1>5 DEF Length
    <3> QED  BY <1>1, <1>5, <3>1, <3>2 DEF JobOK, Started1, EntryKinds
  <2>2. LiftMove(j)  BY <1>2, <1>5 DEF LiftMove, Lifts1, Moving
  <2>3. CountMove(j)  BY <1>2 DEF CountMove, Counting
  <2> QED  BY <2>1, <2>2, <2>3
<1>6. CASE /\ discord' = [discord EXCEPT !.timeout = "none"] /\ faults' = faults
           /\ job' = [Advance(j) EXCEPT ![j].lifted = TRUE]
           /\ entries' = IF discord.timeout = "none" THEN entries ELSE Entry("otherEntry")
  <2>1. /\ job' \in [Jobs -> Job] /\ (\A i \in Jobs \ {j} : job'[i] = job[i]) /\ job'[j].kind = "unmute"
        /\ job'[j].at = 4 /\ job'[j].row = job[j].row /\ job'[j].answer = "none"
    <3> DEFINE step == Advance(j)
    <3>1. /\ step \in [Jobs -> Job] /\ (\A i \in Jobs \ {j} : step[i] = job[i]) /\ step[j].kind = "unmute"
          /\ step[j].at = 4 /\ step[j].row = job[j].row /\ step[j].answer = "none"
      BY <1>1, <1>2, <1>3, Advances
    <3>2. job' = [step EXCEPT ![j].lifted = TRUE]  BY <1>6
    <3> HIDE DEF step
    <3> QED  BY <3>1, <3>2 DEF Job
  <2>2. entries' \in Seq([kind : EntryKinds, left : 0 .. 2]) /\ DOMAIN entries \subseteq DOMAIN entries'
    <3>1. "otherEntry" \in EntryKinds  BY DEF EntryKinds
    <3> QED  BY <1>6, <3>1, Entries DEF Formed, Basic
  <2>3. Basic' /\ discord'.timeout # "bot"  BY <1>1, <1>6, <2>1, <2>2 DEF Formed, Basic
  <2> QED  BY <1>1, <1>5, <1>6, <2>1, <2>2, <2>3, Steady
<1>7. CASE /\ IF job[j].above /\ discord.here THEN Fail ELSE UNCHANGED faults
           /\ job' = Advance(j) /\ discord' = discord /\ entries' = entries
  <2>1. Went(j)  BY <1>1, <1>7, GoesOn
  <2>2. Basic' /\ (faults' = faults \/ faults' = faults + 1)
    BY <1>1, <1>7, <2>1, PunishmentsAssumption DEF Formed, Basic, Went, Fail
  <2>3. job'[j].at = 4 /\ job'[j].kind = "unmute"  BY <1>2, <2>1 DEF Went
  <2>4. Owes(j)'
    <3>1. ~job[j].lifted  BY <1>2, <1>3 DEF JobOK
    <3> QED  BY <2>1, <2>3, <3>1 DEF Owes, Went
  <2> QED  BY <1>1, <1>5, <1>7, <2>1, <2>2, <2>3, <2>4, Steady DEF Went
<1> QED  BY <1>6, <1>7 DEF Lift

LEMMA Least == ASSUME NEW T \in SUBSET Nat, T # {} PROVE \E t \in T : \A m \in T : t <= m
<1>1. PICK x \in T : \A y \in T : ~(<<y, x>> \in OpToRel(<, Nat))  BY NatLessThanWellFounded, WFMin
<1>2. \A y \in T : ~(y < x)  BY <1>1 DEF OpToRel
<1> QED BY <1>2
LEMMA MaxIn == ASSUME NEW n \in Nat, NEW S \in SUBSET (1 .. n), S # {} PROVE Max(S) \in S
<1> DEFINE T == {k \in 0 .. n : n - k \in S}
<1>1. \A x \in S : x \in Nat /\ n - x \in T
  <2> SUFFICES ASSUME NEW x \in S PROVE x \in Nat /\ n - x \in T  OBVIOUS
  <2>1. x \in 1 .. n  OBVIOUS
  <2>2. n - x \in 0 .. n /\ n - (n - x) = x  BY <2>1
  <2> QED  BY <2>1, <2>2
<1>2. T \in SUBSET Nat  OBVIOUS
<1> HIDE DEF T
<1>6. T # {}  BY <1>1
<1>3. PICK t \in T : \A m \in T : t <= m  BY <1>2, <1>6, Least
<1>4. n - t \in S /\ t \in Nat  BY <1>3 DEF T
<1>5. \A y \in S : n - t >= y
  <2> SUFFICES ASSUME NEW y \in S PROVE n - t >= y  OBVIOUS
  <2>1. y \in Nat /\ n - y \in T  BY <1>1
  <2>2. t <= n - y  BY <1>3, <2>1
  <2> QED  BY <1>4, <2>1, <2>2
<1> QED  BY <1>4, <1>5 DEF Max

LEMMA LookupMoves == ASSUME Formed, NEW j \in Jobs, Lookup(j) PROVE Moved(j)
<1>1. /\ Running(j) /\ rows' = rows /\ entries' = entries /\ discord' = discord /\ faults' = faults
      /\ reserved' = reserved
  BY DEF Lookup, At
<1>2. job[j].kind = "unmute" /\ job[j].at = 1 /\ Length(job[j].kind) = 4
  BY <1>1, Runs, Calls DEF Lookup, Length
<1>3. JobOK(j) /\ job[j].answer = "none" /\ job \in [Jobs -> Job] /\ Started1(j)  BY <1>1, Runs
<1>4. CASE job' = Leave(j, "no")
  <2>1. EndedBy(j, "no")  BY <1>1, <1>4, Ends
  <2>2. Basic'  BY <1>1, <2>1 DEF Formed, Basic, EndedBy
  <2>3. ~Counting(j)  BY <1>2 DEF Counting
  <2> QED  BY <1>1, <1>2, <2>1, <2>2, <2>3, Passed
<1>5. CASE Actives({"mute"}) # {} /\ job' = [Advance(j) EXCEPT ![j].row = Max(Actives({"mute"}))]
  <2> DEFINE step == Advance(j)
             m == Max(Actives({"mute"}))
  <2>1. m \in Actives({"mute"})
    <3>1. rows \in Seq(Row)  BY DEF Formed, Basic
    <3>2. Actives({"mute"}) \in SUBSET (1 .. Len(rows)) /\ Len(rows) \in Nat  BY <3>1 DEF Actives
    <3> QED  BY <1>5, <3>2, MaxIn
  <2>2. m \in DOMAIN rows /\ m \in Nat /\ rows[m].type = "mute"  BY <2>1 DEF Actives, Formed, Basic
  <2>3. /\ step \in [Jobs -> Job] /\ (\A i \in Jobs \ {j} : step[i] = job[i]) /\ step[j].kind = "unmute"
        /\ step[j].at = 2 /\ step[j].answer = "none" /\ step[j].lifted = job[j].lifted
    BY <1>1, <1>2, <1>3, Advances
  <2>4. job' = [step EXCEPT ![j].row = m]  BY <1>5
  <2>5. /\ job' \in [Jobs -> Job] /\ (\A i \in Jobs \ {j} : job'[i] = job[i]) /\ job'[j].kind = "unmute"
        /\ job'[j].at = 2 /\ job'[j].answer = "none" /\ job'[j].lifted = job[j].lifted /\ job'[j].row = m
    <3> HIDE DEF step, m
    <3> QED  BY <2>2, <2>3, <2>4 DEF Job
  <2>6. Basic'  BY <1>1, <2>5 DEF Formed, Basic
  <2> HIDE DEF m
  <2>7. JobOK(j)'
    <3>1. ~job[j].lifted  BY <1>2, <1>3 DEF JobOK
    <3>2. Length(job'[j].kind) = 4  BY <2>5 DEF Length
    <3> QED  BY <1>1, <2>2, <2>5, <3>1, <3>2 DEF JobOK, Started1, EntryKinds
  <2>8. LiftMove(j)  BY <2>5 DEF LiftMove, Lifts1, Moving
  <2>9. CountMove(j)  BY <1>2 DEF CountMove, Counting
  <2>10. ~Owes(j)  BY <1>2, <1>3 DEF Owes, GaveUp
  <2> QED  BY <1>1, <2>5, <2>6, <2>7, <2>8, <2>9, <2>10, Steady
<1> QED  BY <1>4, <1>5 DEF Lookup

LEMMA EscalationMoves == ASSUME Formed, NEW j \in Jobs, Escalation(j) PROVE Moved(j)
<1>1. Running(j) /\ rows' = rows /\ entries' = entries /\ discord' = discord /\ reserved' = reserved
  BY DEF Escalation, At
<1>2. \/ job[j].kind = "warn" /\ job[j].at = 4 /\ Length(job[j].kind) = 4
      \/ job[j].kind = "mute" /\ job[j].at = 6 /\ Length(job[j].kind) = 6
  BY <1>1, Runs, Calls DEF Escalation, Length
<1>3. JobOK(j) /\ job[j].answer = "none" /\ job \in [Jobs -> Job] /\ Started1(j)  BY <1>1, Runs
<1>4. CASE Fail /\ job' = Leave(j, "no")
  <2>1. EndedBy(j, "no")  BY <1>1, <1>4, Ends
  <2>2. Basic' /\ faults' = faults + 1 /\ faults' # 0
    BY <1>1, <1>4, <2>1, PunishmentsAssumption DEF Formed, Basic, EndedBy, Fail
  <2> QED  BY <1>1, <1>2, <2>1, <2>2, Passed
<1>5. CASE /\ faults' = faults
           /\ job' = [Advance(j) EXCEPT ![j].answer =
                        IF Cardinality(Counted(job[j].kind)) >= Threshold THEN "escalate" ELSE "ok"]
  <2> DEFINE step == Advance(j)
             a == IF Cardinality(Counted(job[j].kind)) >= Threshold THEN "escalate" ELSE "ok"
  <2>1. /\ step \in [Jobs -> Job] /\ (\A i \in Jobs \ {j} : step[i] = job[i]) /\ step[j].kind = job[j].kind
        /\ step[j].at = job[j].at + 1 /\ step[j].lifted = job[j].lifted
    BY <1>1, <1>3, Advances
  <2>2. job' = [step EXCEPT ![j].answer = a]  BY <1>5
  <2>3. a \in {"ok", "escalate"} /\ (a = "escalate" \/ ~(Cardinality(Counted(job[j].kind)) >= Threshold))
    OBVIOUS
  <2>4. /\ job' \in [Jobs -> Job] /\ (\A i \in Jobs \ {j} : job'[i] = job[i]) /\ job'[j].kind = job[j].kind
        /\ job'[j].at = job[j].at + 1 /\ job'[j].answer = a /\ job'[j].lifted = job[j].lifted
    <3> HIDE DEF step, a
    <3> QED  BY <2>1, <2>2, <2>3 DEF Job
  <2>5. Basic'  BY <1>1, <1>5, <2>4 DEF Formed, Basic
  <2> HIDE DEF a
  <2>6. JobOK(j)'
    <3>1. ~job[j].lifted  BY <1>2, <1>3 DEF JobOK
    <3>2. job'[j].at > Length(job'[j].kind)  BY <1>2, <2>4
    <3> QED  BY <1>2, <2>3, <2>4, <3>1, <3>2 DEF JobOK, Started1, EntryKinds
  <2>7. LiftMove(j)  BY <1>2, <2>4 DEF LiftMove, Lifts1, Moving
  <2>8. CountMove(j)  BY <1>1, <2>3, <2>4 DEF CountMove
  <2>9. ~Owes(j)  BY <1>2, <1>3 DEF Owes, GaveUp
  <2> QED  BY <1>1, <1>5, <2>4, <2>5, <2>6, <2>7, <2>8, <2>9, Steady
<1> QED  BY <1>4, <1>5 DEF Escalation

LEMMA Appended ==
  ASSUME rows \in Seq(Row), NEW r \in Row, rows' = Append(rows, r), entries' = entries,
         faults' = faults
  PROVE  /\ rows' \in Seq(Row) /\ Grow /\ New = {Len(rows) + 1} /\ rows'[Len(rows) + 1] = r
         /\ \A i \in DOMAIN rows : rows'[i] = rows[i]
<1>1. /\ rows' \in Seq(Row) /\ DOMAIN rows = 1 .. Len(rows) /\ DOMAIN rows' = 1 .. Len(rows) + 1
      /\ Len(rows) \in Nat /\ rows'[Len(rows) + 1] = r /\ \A i \in 1 .. Len(rows) : rows'[i] = rows[i]
  <2> HIDE DEF Row
  <2> QED  OBVIOUS
<1>2. New = {Len(rows) + 1}  BY <1>1 DEF New
<1>3. Grow  BY <1>1 DEF Grow
<1> QED  BY <1>1, <1>2, <1>3

LEMMA Restated ==
  ASSUME rows \in Seq(Row), NEW i \in DOMAIN rows, rows' = Deactivated(i), entries' = entries,
         faults' = faults
  PROVE  /\ rows' \in Seq(Row) /\ Grow /\ New = {} /\ DOMAIN rows' = DOMAIN rows
         /\ rows'[i].state # "active" /\ rows'[i].type = rows[i].type
         /\ \A l \in DOMAIN rows \ {i} : rows'[l] = rows[l]
<1> DEFINE r == [rows[i] EXCEPT !.state = IF @ = "active" THEN "inactive" ELSE @]
<1>1. rows[i] \in Row
  <2> HIDE DEF Row
  <2> QED  OBVIOUS
<1>2. r \in Row /\ r.state # "active" /\ r.type = rows[i].type /\ r.entry = rows[i].entry  BY <1>1 DEF Row
<1>3. rows' = [rows EXCEPT ![i] = r]  BY DEF Deactivated
<1> HIDE DEF r
<1>4. rows' \in Seq(Row) /\ DOMAIN rows' = DOMAIN rows /\ rows'[i] = r /\ \A l \in DOMAIN rows \ {i} : rows'[l] = rows[l]
  <2> HIDE DEF Row
  <2> QED  BY <1>2, <1>3
<1>5. Grow /\ New = {}  BY <1>2, <1>4 DEF Grow, New
<1> QED  BY <1>2, <1>4, <1>5

LEMMA InsertMoves == ASSUME Formed, NEW j \in Jobs, Insert(j) PROVE Moved(j)
<1>1. Running(j) /\ entries' = entries /\ discord' = discord /\ reserved' = reserved /\ job' = Advance(j)
  BY DEF Insert, At
<1>2. \/ job[j].kind = "warn" /\ job[j].at = 1
      \/ job[j].kind \in {"mute", "kick", "ban"} /\ job[j].at = 3
  BY <1>1, Runs, Calls DEF Insert
<1>3. JobOK(j) /\ job[j].answer = "none" /\ job \in [Jobs -> Job] /\ Started1(j)  BY <1>1, Runs
<1>4. Went(j)  BY <1>1, GoesOn
<1>5. job[j].at + 1 <= Length(job[j].kind)  BY <1>2 DEF Length
<1>6. JobOK(j)'
  <2>1. ~job[j].lifted  BY <1>2, <1>3 DEF JobOK
  <2> QED  BY <1>2, <1>4, <1>5, <2>1 DEF Went, JobOK, Started1, EntryKinds
<1>7. LiftMove(j)  BY <1>2, <1>4 DEF LiftMove, Lifts1, Moving, Went
<1>8. CountMove(j)  BY <1>2 DEF CountMove, Counting
<1>9. CASE Fail /\ rows' = rows
  <2>1. Basic' /\ faults' = faults + 1 /\ faults' # 0
    BY <1>1, <1>4, <1>9, PunishmentsAssumption DEF Formed, Basic, Went, Fail
  <2> QED  BY <1>1, <1>4, <1>6, <1>7, <1>8, <1>9, <2>1, Steady DEF Went
<1>10. CASE /\ rows' = Append(rows, [type |-> job[j].kind, state |-> "active", entry |-> 0])
            /\ faults' = faults
  <2> DEFINE r == [type |-> job[j].kind, state |-> "active", entry |-> 0]
  <2>1. r \in Row /\ r.type = job[j].kind /\ r.state = "active" /\ r.entry = 0  BY <1>2 DEF Row, Types
  <2>2. rows \in Seq(Row) /\ rows' = Append(rows, r)  BY <1>10 DEF Formed, Basic
  <2> HIDE DEF r
  <2>3. /\ rows' \in Seq(Row) /\ Grow /\ New = {Len(rows) + 1} /\ rows'[Len(rows) + 1] = r
        /\ \A i \in DOMAIN rows : rows'[i] = rows[i]
    BY <1>1, <1>10, <2>1, <2>2, Appended
  <2>4. Basic'  BY <1>1, <1>4, <1>10, <2>3 DEF Formed, Basic, Went
  <2>5. Adds(j)
    <3>1. r.type \in {"warn", "mute"} => job'[j].kind = r.type /\ Counting(j)'
      BY <1>2, <1>4, <2>1 DEF Counting, Went
    <3> QED  BY <2>1, <2>3, <3>1 DEF Adds
  <2>6. MuteMove(j)
    <3>1. \A i \in Actives({"mute"}) : i \in Actives({"mute"})'  BY <2>3 DEF Actives, Grow
    <3>2. ASSUME Owes(j) PROVE Actives({"mute"})' # {}
      <4>1. job[j].kind = "mute"  BY <1>2, <1>3, <3>2 DEF Owes, GaveUp
      <4>2. Len(rows) + 1 \in DOMAIN rows'  BY <2>3 DEF New
      <4>3. Len(rows) + 1 \in Actives({"mute"})'  BY <2>1, <2>3, <4>1, <4>2 DEF Actives
      <4> QED  BY <4>3
    <3>3. ASSUME discord.timeout # "bot" PROVE discord'.timeout # "bot"  BY <1>1, <3>3
    <3> QED  BY <3>1, <3>2, <3>3 DEF MuteMove
  <2> QED  BY <1>3, <1>4, <1>6, <1>7, <1>8, <2>3, <2>4, <2>5, <2>6 DEF Moved, Went
<1> QED  BY <1>9, <1>10 DEF Insert

LEMMA RecordMoves == ASSUME Formed, NEW j \in Jobs, Record(j) PROVE Moved(j)
<1>1. /\ Running(j) /\ entries' = entries /\ discord' = discord /\ reserved' = reserved
      /\ job' = Leave(j, "ok")
  BY DEF Record, At
<1>2. job[j].kind \in {"timeoutEntry", "banEntry"} /\ job[j].at = 2  BY <1>1, Runs, Calls DEF Record
<1>3. JobOK(j) /\ job[j].answer = "none" /\ job \in [Jobs -> Job] /\ Started1(j)  BY <1>1, Runs
<1>4. EndedBy(j, "ok")  BY <1>1, Ends
<1>5. ~Counting(j) /\ ~Owes(j)  BY <1>2, <1>3 DEF Counting, Owes, GaveUp
<1>6. CASE rows' = rows /\ (faults' = faults \/ Fail)
  <2>1. Basic' /\ (faults' = faults \/ faults' = faults + 1)
    BY <1>1, <1>4, <1>6, PunishmentsAssumption DEF Formed, Basic, EndedBy, Fail
  <2> QED  BY <1>1, <1>2, <1>4, <1>5, <1>6, <2>1, Passed
<1>7. CASE /\ ~Recorded(job[j].row) /\ faults' = faults
           /\ rows' = Append(rows, [type  |-> IF job[j].kind = "banEntry" THEN "ban" ELSE "timeout",
                                    state |-> "active", entry |-> job[j].row])
  <2> DEFINE r == [type  |-> IF job[j].kind = "banEntry" THEN "ban" ELSE "timeout",
                   state |-> "active", entry |-> job[j].row]
  <2>1. r \in Row /\ r.type \notin {"warn", "mute"} /\ r.entry = job[j].row
    <3>1. job[j].row \in Nat  BY <1>3 DEF Job
    <3>2. (IF job[j].kind = "banEntry" THEN "ban" ELSE "timeout") \in {"ban", "timeout"}  OBVIOUS
    <3> QED  BY <3>1, <3>2 DEF Row, Types
  <2>2. rows \in Seq(Row) /\ rows' = Append(rows, r)  BY <1>7 DEF Formed, Basic
  <2> HIDE DEF r
  <2>3. /\ rows' \in Seq(Row) /\ Grow /\ New = {Len(rows) + 1} /\ rows'[Len(rows) + 1] = r
        /\ \A i \in DOMAIN rows : rows'[i] = rows[i]
    BY <1>1, <1>7, <2>1, <2>2, Appended
  <2>4. Basic'  BY <1>1, <1>4, <1>7, <2>3 DEF Formed, Basic, EndedBy
  <2>5. Adds(j)  BY <1>7, <2>1, <2>3 DEF Adds, Recorded
  <2>6. MuteMove(j)
    <3>1. \A i \in Actives({"mute"}) : i \in Actives({"mute"})'  BY <2>3 DEF Actives, Grow
    <3> QED  BY <1>1, <1>5, <3>1 DEF MuteMove
  <2>7. JobOK(j)'
    <3>1. ~job[j].lifted /\ job[j].row \in DOMAIN entries  BY <1>2, <1>3 DEF JobOK, EntryKinds
    <3>2. Length(job[j].kind) = 2  BY <1>2 DEF Length
    <3> QED  BY <1>1, <1>2, <1>4, <3>1, <3>2 DEF JobOK, EndedBy, Started1
  <2>8. LiftMove(j)  BY <1>2, <1>4 DEF LiftMove, Lifts1, EndedBy
  <2>9. CountMove(j)  BY <1>5 DEF CountMove
  <2> QED  BY <1>3, <1>4, <2>3, <2>4, <2>5, <2>6, <2>7, <2>8, <2>9 DEF Moved, EndedBy
<1> QED  BY <1>6, <1>7 DEF Record

LEMMA DeactivateMoves == ASSUME Formed, NEW j \in Jobs, Deactivate(j) PROVE Moved(j)
<1>1. Running(j) /\ entries' = entries /\ discord' = discord /\ reserved' = reserved
  BY DEF Deactivate, At
<1>2. job[j].kind = "unmute" /\ job[j].at = 2 /\ Length(job[j].kind) = 4
  BY <1>1, Runs, Calls DEF Deactivate, Length
<1>3. JobOK(j) /\ job[j].answer = "none" /\ job \in [Jobs -> Job] /\ Started1(j)  BY <1>1, Runs
<1>4. job[j].row \in DOMAIN rows /\ rows[job[j].row].type = "mute" /\ ~job[j].lifted
  BY <1>2, <1>3 DEF JobOK
<1>5. ~Counting(j) /\ ~Owes(j)  BY <1>2, <1>3 DEF Counting, Owes, GaveUp
<1>6. CASE Fail /\ job' = Leave(j, "no") /\ rows' = rows
  <2>1. EndedBy(j, "no")  BY <1>1, <1>6, Ends
  <2>2. Basic' /\ faults' = faults + 1
    BY <1>1, <1>6, <2>1, PunishmentsAssumption DEF Formed, Basic, EndedBy, Fail
  <2> QED  BY <1>1, <1>2, <1>5, <1>6, <2>1, <2>2, Passed
<1>7. CASE /\ rows' = Deactivated(job[j].row) /\ faults' = faults
           /\ job' = IF Lifts(job[j].row) THEN Advance(j) ELSE Leave(j, "no")
  <2> DEFINE i == job[j].row
  <2>1. rows \in Seq(Row)  BY DEF Formed, Basic
  <2>2. /\ rows' \in Seq(Row) /\ Grow /\ New = {} /\ DOMAIN rows' = DOMAIN rows
        /\ rows'[i].state # "active" /\ rows'[i].type = rows[i].type
        /\ \A l \in DOMAIN rows \ {i} : rows'[l] = rows[l]
    BY <1>1, <1>4, <1>7, <2>1, Restated
  <2>3. Adds(j) /\ CountMove(j)  BY <1>5, <2>2 DEF Adds, CountMove
  <2>4. CASE Lifts(i)
    <3>1. Went(j)  BY <1>1, <1>7, <2>4, GoesOn
    <3>2. Basic'  BY <1>1, <1>7, <2>2, <3>1 DEF Formed, Basic, Went
    <3>3. JobOK(j)'  BY <1>2, <1>4, <2>2, <3>1 DEF JobOK, Went, Started1, EntryKinds
    <3>4. LiftMove(j)  BY <1>4, <2>2, <2>4, <3>1 DEF LiftMove, Lifts1, Lifts, Went
    <3>5. Owes(j)'  BY <1>2, <3>1 DEF Owes, Went
    <3>6. MuteMove(j)  BY <1>1, <1>5, <3>5 DEF MuteMove
    <3> QED  BY <1>3, <2>2, <2>3, <3>1, <3>2, <3>3, <3>4, <3>6 DEF Moved, Went
  <2>5. CASE ~Lifts(i)
    <3>1. EndedBy(j, "no")  BY <1>1, <1>7, <2>5, Ends
    <3>2. Basic'  BY <1>1, <1>7, <2>2, <3>1 DEF Formed, Basic, EndedBy
    <3>3. JobOK(j)'  BY <1>2, <1>4, <2>2, <3>1 DEF JobOK, EndedBy, Started1, EntryKinds
    <3>4. LiftMove(j)  BY <1>2, <3>1 DEF LiftMove, Lifts1, Moving, EndedBy
    <3>5. Actives({"mute"}) \subseteq Actives({"mute"})'  BY <2>2, <2>5 DEF Actives, Lifts
    <3>6. MuteMove(j)  BY <1>1, <1>5, <3>5 DEF MuteMove
    <3> QED  BY <1>3, <2>2, <2>3, <3>1, <3>2, <3>3, <3>4, <3>6 DEF Moved, EndedBy
  <2> QED  BY <2>4, <2>5
<1> QED  BY <1>6, <1>7 DEF Deactivate

LEMMA RevokeMoves == ASSUME Formed, NEW j \in Jobs, Revoke(j) PROVE Moved(j)
<1>1. Running(j) /\ entries' = entries /\ discord' = discord /\ reserved' = reserved
  BY DEF Revoke, At
<1>2. job[j].kind = "revoke" /\ job[j].at = 2 /\ Length(job[j].kind) = 2
  BY <1>1, Runs, Calls DEF Revoke, Length
<1>3. JobOK(j) /\ job[j].answer = "none" /\ job \in [Jobs -> Job] /\ Started1(j)  BY <1>1, Runs
<1>4. job[j].row \in DOMAIN rows /\ ~job[j].lifted  BY <1>2, <1>3 DEF JobOK
<1>5. ~Counting(j) /\ ~Owes(j)  BY <1>2, <1>3 DEF Counting, Owes, GaveUp
<1>6. CASE Fail /\ job' = Leave(j, "no") /\ rows' = rows
  <2>1. EndedBy(j, "no")  BY <1>1, <1>6, Ends
  <2>2. Basic' /\ faults' = faults + 1
    BY <1>1, <1>6, <2>1, PunishmentsAssumption DEF Formed, Basic, EndedBy, Fail
  <2> QED  BY <1>1, <1>2, <1>5, <1>6, <2>1, <2>2, Passed
<1>7. CASE /\ rows' = Deactivated(job[j].row) /\ faults' = faults
           /\ job' = Leave(j, IF Lifts(job[j].row) THEN "ok" ELSE "no")
  <2> DEFINE i == job[j].row
             a == IF Lifts(i) THEN "ok" ELSE "no"
  <2>1. rows \in Seq(Row)  BY DEF Formed, Basic
  <2>2. /\ rows' \in Seq(Row) /\ Grow /\ New = {} /\ DOMAIN rows' = DOMAIN rows
        /\ rows'[i].state # "active" /\ rows'[i].type = rows[i].type
        /\ \A l \in DOMAIN rows \ {i} : rows'[l] = rows[l]
    BY <1>1, <1>4, <1>7, <2>1, Restated
  <2>3. Adds(j) /\ CountMove(j)  BY <1>5, <2>2 DEF Adds, CountMove
  <2>4. EndedBy(j, a)
    <3>1. a \in {"ok", "no"}  OBVIOUS
    <3> QED  BY <1>1, <1>7, <3>1, Ends
  <2>5. Basic'  BY <1>1, <1>7, <2>2, <2>4 DEF Formed, Basic, EndedBy
  <2>6. JobOK(j)'  BY <1>2, <1>4, <2>2, <2>4 DEF JobOK, EndedBy, Started1, EntryKinds
  <2>7. LiftMove(j)
    <3>1. a = "ok" => rows[i].state = "active"  BY DEF Lifts
    <3> HIDE DEF a
    <3> QED  BY <1>2, <1>4, <2>2, <2>4, <3>1 DEF LiftMove, Lifts1, Moving, EndedBy
  <2>8. MuteMove(j)
    <3>1. ASSUME NEW m \in Actives({"mute"}) PROVE m \in Actives({"mute"})' \/ Owes(j)'
      <4>1. m \in DOMAIN rows /\ rows[m].state = "active" /\ rows[m].type = "mute"  BY <3>1 DEF Actives
      <4>2. CASE m = i
        <5>1. a = "ok"  BY <4>1, <4>2 DEF Lifts
        <5> HIDE DEF a
        <5> QED  BY <1>2, <2>2, <2>4, <4>1, <4>2, <5>1 DEF Owes, GaveUp, EndedBy
      <4>3. CASE m # i  BY <2>2, <4>1, <4>3 DEF Actives
      <4> QED  BY <4>2, <4>3
    <3> QED  BY <1>1, <1>5, <3>1 DEF MuteMove
  <2> QED  BY <1>3, <2>2, <2>3, <2>4, <2>5, <2>6, <2>7, <2>8 DEF Moved, EndedBy
<1> QED  BY <1>6, <1>7 DEF Revoke

LEMMA StepMoves == ASSUME Formed, NEW j \in Jobs, Step(j) PROVE Moved(j)
BY RunMoves, PickMoves, DeliverMoves, StripMoves, TimeoutMoves, LiftMoves, TellMoves, LogMoves, ExpelMoves,
   InsertMoves, RecordMoves, LookupMoves, DeactivateMoves, RevokeMoves, EscalationMoves DEF Step

-----------------------------------------------------------------------------
(* The steps of no handler.                                                *)

Around == Cleanup \/ Forget \/ Expire \/ ByHand \/ Return \/ UNCHANGED vars

AroundMoved ==
    /\ Basic' /\ Grow /\ New = {} /\ job' = job /\ faults' = faults
    /\ discord'.timeout = "bot" => discord.timeout = "bot"
    /\ \A types : Actives(types)' = Actives(types)

LEMMA AroundMoves == ASSUME Formed, Around PROVE AroundMoved
<1>1. CASE Cleanup
  <2>1. PICK i \in DOMAIN rows : ~Retained(i) /\ rows' = [rows EXCEPT ![i].state = "gone"]  BY <1>1 DEF Cleanup
  <2>2. rows \in Seq(Row)  BY DEF Formed, Basic
  <2> DEFINE r == [rows[i] EXCEPT !.state = "gone"]
  <2>3. rows[i] \in Row
    <3> HIDE DEF Row
    <3> QED  BY <2>1, <2>2
  <2>4. r \in Row /\ r.state # "active" /\ r.type = rows[i].type /\ r.entry = rows[i].entry  BY <2>3 DEF Row
  <2>5. rows' = [rows EXCEPT ![i] = r]  BY <2>1
  <2> HIDE DEF r
  <2>6. rows' \in Seq(Row) /\ DOMAIN rows' = DOMAIN rows /\ rows'[i] = r /\ \A l \in DOMAIN rows \ {i} : rows'[l] = rows[l]
    <3> HIDE DEF Row
    <3> QED  BY <2>1, <2>2, <2>4, <2>5
  <2>7. UNCHANGED <<discord, entries, job, reserved, faults>>  BY <1>1 DEF Cleanup
  <2>8. Grow /\ New = {}  BY <2>4, <2>6, <2>7 DEF Grow, New
  <2>9. \A types : Actives(types)' = Actives(types)  BY <2>1, <2>4, <2>6 DEF Actives, Retained
  <2>10. Basic'  BY <2>6, <2>7 DEF Formed, Basic
  <2> QED  BY <2>7, <2>8, <2>9, <2>10 DEF AroundMoved
<1>2. CASE Forget
  <2>1. UNCHANGED <<rows, discord, entries, job, faults>> /\ reserved' \subseteq reserved  BY <1>2 DEF Forget
  <2>2. Basic'  BY <2>1 DEF Formed, Basic
  <2>3. Grow /\ New = {}  BY <2>1 DEF Grow, New
  <2> QED  BY <2>1, <2>2, <2>3 DEF AroundMoved, Actives
<1>3. CASE Expire \/ Return
  <2>1. UNCHANGED <<rows, entries, job, reserved, faults>>  BY <1>3 DEF Expire, Return
  <2>2. \/ discord' = [discord EXCEPT !.timeout = "none"] \/ discord' = [discord EXCEPT !.here = TRUE]
    BY <1>3 DEF Expire, Return
  <2>3. Basic' /\ (discord'.timeout = "bot" => discord.timeout = "bot")  BY <2>1, <2>2 DEF Formed, Basic
  <2>4. Grow /\ New = {}  BY <2>1 DEF Grow, New
  <2> QED  BY <2>1, <2>3, <2>4 DEF AroundMoved, Actives
<1>4. CASE ByHand
  <2>1. UNCHANGED <<rows, job, reserved, faults>> /\ discord' = [discord EXCEPT !.timeout = "person"]
        /\ entries' = Entry("timeoutEntry")  BY <1>4 DEF ByHand
  <2>2. "timeoutEntry" \in EntryKinds  BY DEF EntryKinds
  <2>3. entries' \in Seq([kind : EntryKinds, left : 0 .. 2]) /\ DOMAIN entries \subseteq DOMAIN entries'
    BY <2>1, <2>2, Entries DEF Formed, Basic
  <2>4. Basic' /\ discord'.timeout # "bot"  BY <2>1, <2>3 DEF Formed, Basic
  <2>5. Grow /\ New = {}  BY <2>1, <2>3 DEF Grow, New
  <2> QED  BY <2>1, <2>4, <2>5 DEF AroundMoved, Actives
<1>5. CASE UNCHANGED vars
  <2>1. UNCHANGED <<rows, discord, entries, job, reserved, faults>>  BY <1>5 DEF vars
  <2>2. Basic'  BY <2>1 DEF Formed, Basic
  <2>3. Grow /\ New = {}  BY <2>1 DEF Grow, New
  <2> QED  BY <2>1, <2>2, <2>3 DEF AroundMoved, Actives
<1> QED  BY <1>1, <1>2, <1>3, <1>4, <1>5 DEF Around

LEMMA Ways == ASSUME [Next]_vars PROVE (\E j \in Jobs : Step(j)) \/ Around
BY DEF Next, Around

LEMMA Untouched ==
  ASSUME Basic, Basic', Grow, NEW j \in Jobs, JobOK(j), job'[j] = job[j]
  PROVE  /\ JobOK(j)' /\ (Counting(j)' <=> Counting(j)) /\ (Owes(j) => Owes(j)')
         /\ \A i : Lifts1(j, i)' <=> Lifts1(j, i)
<1>1. JobOK(j)'  BY DEF JobOK, Grow, Started1
<1>2. Counting(j)' <=> Counting(j)  BY DEF Counting
<1>3. Owes(j) => Owes(j)'  BY DEF Owes, GaveUp, JobOK, Grow
<1>4. \A i : Lifts1(j, i)' <=> Lifts1(j, i)  BY DEF Lifts1, Moving
<1> QED  BY <1>1, <1>2, <1>3, <1>4

LEMMA InitFormed == Init => Formed
<1> SUFFICES ASSUME Init PROVE Formed  OBVIOUS
<1>1. Idle \in Job /\ Idle.kind = "none" /\ Idle.answer = "none" /\ Idle.lifted = FALSE /\ Idle.row = 0
  BY DEF Idle, Job
<1>2. Basic  BY <1>1, PunishmentsAssumption DEF Init, Basic
<1>3. ASSUME NEW j \in Jobs PROVE JobOK(j)
  <2>1. job[j] = Idle  BY DEF Init
  <2> QED  BY <1>1, <2>1 DEF JobOK, Started1, EntryKinds
<1> QED  BY <1>2, <1>3 DEF Formed

LEMMA FormedStep == Formed /\ [Next]_vars => Formed'
<1> SUFFICES ASSUME Formed, [Next]_vars PROVE Formed'  OBVIOUS
<1>1. CASE Around
  <2>1. AroundMoved  BY <1>1, AroundMoves
  <2>2. \A j \in Jobs : JobOK(j)'  BY <2>1, Untouched DEF AroundMoved, Formed
  <2> QED  BY <2>1, <2>2 DEF Formed, AroundMoved
<1>2. ASSUME NEW j \in Jobs, Step(j) PROVE Formed'
  <2>1. Moved(j)  BY <1>2, StepMoves
  <2>2. ASSUME NEW i \in Jobs PROVE JobOK(i)'
    <3>1. CASE i = j  BY <2>1, <3>1 DEF Moved
    <3>2. CASE i # j
      <4>1. job'[i] = job[i]  BY <2>1, <3>2 DEF Moved
      <4> QED  BY <2>1, <4>1, Untouched DEF Moved, Formed
    <3> QED  BY <3>1, <3>2
  <2> QED  BY <2>1, <2>2 DEF Moved, Formed
<1> QED  BY <1>1, <1>2, Ways

LEMMA AlwaysFormed == Spec => []Formed
BY InitFormed, FormedStep, PTL DEF Spec

\* Every variable has its type, and what a handler took from a table is there.
THEOREM TypeCorrect == Spec => []TypeOK
BY AlwaysFormed, FormedIsTyped, PTL

-----------------------------------------------------------------------------
(* One lifts.                                                              *)

LEMMA LiftedRowIsThere ==
  ASSUME Formed, NEW j \in Jobs, NEW i, Lifts1(j, i)
  PROVE  i \in DOMAIN rows
<1>1. JobOK(j)  BY DEF Formed
<1>2. Moving(j) => Length(job[j].kind) = 4 /\ job[j].at <= 4 /\ job[j].at >= 2 /\ job[j].kind # "none"
  BY DEF Moving, Length
<1>3. Moving(j) => job[j].answer = "none"  BY <1>1, <1>2 DEF JobOK
<1>4. job[j].kind = "unmute" /\ job[j].answer = "ok" => job[j].at >= 2
  <2>1. job[j].kind = "unmute" /\ job[j].answer = "ok" => ~(job[j].at <= 4)  BY <1>1 DEF JobOK, Length
  <2>2. job[j].at \in Nat  BY DEF Formed, Basic, Job
  <2> QED  BY <2>1, <2>2
<1>5. Moving(j) => job[j].kind = "unmute"  BY DEF Moving
<1> QED  BY <1>1, <1>2, <1>3, <1>4, <1>5 DEF JobOK, Lifts1

LEMMA LiftStep == Formed /\ LiftInv /\ [Next]_vars => LiftInv'
<1> SUFFICES ASSUME Formed, LiftInv, [Next]_vars PROVE LiftInv'  OBVIOUS
<1>1. CASE Around
  <2>1. AroundMoved  BY <1>1, AroundMoves
  <2>2. \A j \in Jobs : \A i : Lifts1(j, i)' <=> Lifts1(j, i)  BY <2>1, Untouched DEF AroundMoved, Formed
  <2>3. DOMAIN rows' = DOMAIN rows  BY <2>1 DEF AroundMoved, Grow, New
  <2> QED  BY <2>1, <2>2, <2>3 DEF LiftInv, AroundMoved, Grow
<1>2. ASSUME NEW j \in Jobs, Step(j) PROVE LiftInv'
  <2>1. Moved(j)  BY <1>2, StepMoves
  <2>2. \A l \in Jobs \ {j} : \A i : Lifts1(l, i)' <=> Lifts1(l, i)  BY <2>1, Untouched DEF Moved, Formed
  <2>3. \A i \in DOMAIN rows' : Lifts1(j, i)' =>
          \/ Lifts1(j, i)
          \/ i \in DOMAIN rows /\ rows[i].state = "active" /\ rows'[i].state # "active"
    BY <2>1 DEF Moved, LiftMove
  <2>4. \A i \in DOMAIN rows : rows[i].state # "active" => rows'[i].state # "active"  BY <2>1 DEF Moved, Grow
  <2>5. ASSUME NEW l \in Jobs, NEW i \in DOMAIN rows', Lifts1(l, i)' PROVE rows'[i].state # "active"
    <3>1. CASE Lifts1(l, i)  BY <3>1, <2>4, LiftedRowIsThere DEF LiftInv
    <3>2. CASE ~Lifts1(l, i)
      <4>1. l = j  BY <2>2, <2>5, <3>2
      <4> QED  BY <2>3, <2>5, <3>2, <4>1
    <3> QED  BY <3>1, <3>2
  <2>6. ASSUME NEW l \in Jobs, NEW m \in Jobs, NEW i \in DOMAIN rows', Lifts1(l, i)', Lifts1(m, i)' PROVE m = l
    <3>1. CASE Lifts1(l, i) /\ Lifts1(m, i)  BY <3>1, LiftedRowIsThere DEF LiftInv
    <3>2. CASE ~Lifts1(l, i)
      <4>1. l = j /\ rows[i].state = "active"  BY <2>2, <2>3, <2>6, <3>2
      <4>2. CASE m # j
        <5>1. Lifts1(m, i)  BY <2>2, <2>6, <4>2
        <5> QED  BY <5>1, <4>1, LiftedRowIsThere DEF LiftInv
      <4> QED  BY <4>1, <4>2
    <3>3. CASE ~Lifts1(m, i)
      <4>1. m = j /\ rows[i].state = "active"  BY <2>2, <2>3, <2>6, <3>3
      <4>2. CASE l # j
        <5>1. Lifts1(l, i)  BY <2>2, <2>6, <4>2
        <5> QED  BY <5>1, <4>1, LiftedRowIsThere DEF LiftInv
      <4> QED  BY <4>1, <4>2
    <3> QED  BY <3>1, <3>2, <3>3
  <2> QED  BY <2>5, <2>6 DEF LiftInv
<1> QED  BY <1>1, <1>2, Ways

LEMMA AtMostOne ==
  ASSUME NEW S, \A x, y \in S : x = y
  PROVE  Cardinality(S) <= 1
<1>1. CASE S = {}  BY <1>1, FS_EmptySet
<1>2. CASE S # {}
  <2>1. PICK x \in S : S = {x}  BY <1>2
  <2> QED  BY <2>1, FS_Singleton
<1> QED  BY <1>1, <1>2

LEMMA LiftedOnceFollows == Formed /\ LiftInv => LiftedOnce
<1> SUFFICES ASSUME Formed, LiftInv, NEW i \in DOMAIN rows
             PROVE  Cardinality({j \in Jobs : Lifting(j, i)}) <= 1
  BY DEF LiftedOnce
<1>1. ASSUME NEW j \in Jobs, Lifting(j, i) PROVE Lifts1(j, i)
  <2>1. JobOK(j) /\ job \in [Jobs -> Job] /\ Started1(j)  BY DEF Formed, Basic, JobOK
  <2>2. At(j, "lift") => job[j].at = 3  BY <2>1, Calls
  <2>3. job[j].kind = "unmute" /\ At(j, "log") => job[j].at = 4  BY <2>1, Calls
  <2> QED  BY <1>1, <2>2, <2>3 DEF Lifting, Lifts1, Moving
<1>2. \A j, l \in {l \in Jobs : Lifting(l, i)} : j = l  BY <1>1 DEF LiftInv
<1> QED  BY <1>2, AtMostOne

\* Of the moderators who lift the same row, in whatever order their commands and the
\* revocations come, one is told that it was lifted: the UPDATE asks for an active row.
THEOREM LiftedByOne == Spec => []LiftedOnce
<1>1. Init => LiftInv
  <2> SUFFICES ASSUME Init PROVE LiftInv  OBVIOUS
  <2>1. DOMAIN rows = {}  BY DEF Init
  <2> QED  BY <2>1 DEF LiftInv
<1>2. Spec => []LiftInv  BY <1>1, AlwaysFormed, LiftStep, PTL DEF Spec
<1> QED  BY <1>2, AlwaysFormed, LiftedOnceFollows, PTL

-----------------------------------------------------------------------------
(* One row for an entry.                                                   *)

LEMMA RecordStep == Formed /\ RecordInv /\ [Next]_vars => RecordInv'
<1> SUFFICES ASSUME Formed, RecordInv, [Next]_vars PROVE RecordInv'  OBVIOUS
<1>1. CASE Around
  <2>1. AroundMoved  BY <1>1, AroundMoves
  <2>2. DOMAIN rows' = DOMAIN rows /\ \A i \in DOMAIN rows : rows'[i].entry = rows[i].entry
    BY <2>1 DEF AroundMoved, Grow, New
  <2> QED  BY <2>2 DEF RecordInv
<1>2. ASSUME NEW j \in Jobs, Step(j) PROVE RecordInv'
  <2>1. Moved(j)  BY <1>2, StepMoves
  <2>2. \A i \in DOMAIN rows : rows'[i].entry = rows[i].entry  BY <2>1 DEF Moved, Grow
  <2>3. \A i, l \in New : l = i  BY <2>1 DEF Moved, Adds
  <2>4. \A i \in New : rows'[i].entry = 0 \/ \A l \in DOMAIN rows : rows[l].entry # rows'[i].entry
    BY <2>1 DEF Moved, Adds
  <2>5. \A i \in DOMAIN rows' : i \in DOMAIN rows \/ i \in New  BY DEF New
  <2> QED  BY <2>2, <2>3, <2>4, <2>5 DEF RecordInv
<1> QED  BY <1>1, <1>2, Ways

\* However often an entry of the audit log is delivered, and whatever handlers run at once, it is
\* recorded once: the unique constraint holds for what it is meant to tell apart.
THEOREM EntryRecordedOnce == Spec => []RecordedOnce
<1>1. Init => RecordInv
  <2> SUFFICES ASSUME Init PROVE RecordInv  OBVIOUS
  <2>1. DOMAIN rows = {}  BY DEF Init
  <2> QED  BY <2>1 DEF RecordInv
<1>2. Spec => []RecordInv  BY <1>1, AlwaysFormed, RecordStep, PTL DEF Spec
<1>3. Formed /\ RecordInv => RecordedOnce
  <2> SUFFICES ASSUME Formed, RecordInv, NEW e \in DOMAIN entries
               PROVE  Cardinality({i \in DOMAIN rows : rows[i].entry = e}) <= 1
    BY DEF RecordedOnce
  <2>1. e # 0  BY DEF Formed, Basic
  <2>2. \A i, l \in {m \in DOMAIN rows : rows[m].entry = e} : i = l  BY <2>1 DEF RecordInv
  <2> QED  BY <2>2, AtMostOne
<1> QED  BY <1>2, <1>3, AlwaysFormed, PTL

-----------------------------------------------------------------------------
(* The third is noticed.                                                   *)

LEMMA ActivesFinite ==
  ASSUME Formed, NEW types PROVE IsFiniteSet(Actives(types)) /\ IsFiniteSet(DOMAIN rows)
<1>1. rows \in Seq(Row)  BY DEF Formed, Basic
<1>2. DOMAIN rows = 1 .. Len(rows) /\ Len(rows) \in Nat  BY <1>1
<1>3. IsFiniteSet(DOMAIN rows)  BY <1>2, FS_Interval
<1>4. Actives(types) \subseteq DOMAIN rows  BY DEF Actives
<1> QED  BY <1>3, <1>4, FS_Subset

\* Fewer rows are not three.
LEMMA Fewer ==
  ASSUME Formed, NEW S, NEW types, S \subseteq Actives(types), Cardinality(S) >= Threshold
  PROVE  Cardinality(Actives(types)) >= Threshold
<1>1. IsFiniteSet(Actives(types))  BY ActivesFinite
<1>2. Cardinality(S) <= Cardinality(Actives(types)) /\ IsFiniteSet(S)  BY <1>1, FS_Subset
<1>3. Cardinality(S) \in Nat /\ Cardinality(Actives(types)) \in Nat  BY <1>1, <1>2, FS_CardinalityType
<1> QED  BY <1>2, <1>3 DEF Threshold

LEMMA EscalationStep == Formed /\ EscalationInv /\ [Next]_vars => EscalationInv'
<1> SUFFICES ASSUME Formed, EscalationInv, [Next]_vars PROVE EscalationInv'  OBVIOUS
<1>1. CASE Around
  <2>1. AroundMoved  BY <1>1, AroundMoves
  <2>2. \A j \in Jobs : Counting(j)' <=> Counting(j)  BY <2>1, Untouched DEF AroundMoved, Formed
  <2>3. \A k : Actives({k})' = Actives({k})  BY <2>1 DEF AroundMoved
  <2> QED  BY <2>1, <2>2, <2>3 DEF EscalationInv, AroundMoved
<1>2. ASSUME NEW j \in Jobs, Step(j) PROVE EscalationInv'
  <2> SUFFICES ASSUME faults' = 0, NEW k \in {"warn", "mute"}, Cardinality(Actives({k})') >= Threshold
               PROVE  \E l \in Jobs : job'[l].kind = k /\ (job'[l].answer = "escalate" \/ Counting(l)')
    BY DEF EscalationInv
  <2>1. Moved(j)  BY <1>2, StepMoves
  <2>2. faults = 0  BY <2>1 DEF Moved, Grow
  <2>3. CASE \E i \in New : rows'[i].type = k
    <3>1. job'[j].kind = k /\ Counting(j)'  BY <2>1, <2>3 DEF Moved, Adds
    <3> QED  BY <3>1
  <2>4. CASE ~ \E i \in New : rows'[i].type = k
    <3>1. Actives({k})' \subseteq Actives({k})
      <4> SUFFICES ASSUME NEW i \in DOMAIN rows', rows'[i].state = "active", rows'[i].type = k
                   PROVE  i \in Actives({k})
        BY DEF Actives
      <4>1. i \in DOMAIN rows  BY <2>4 DEF New
      <4>2. rows[i].type = k /\ rows[i].state = "active"  BY <2>1, <4>1 DEF Moved, Grow
      <4> QED  BY <4>1, <4>2 DEF Actives
    <3>2. Cardinality(Actives({k})) >= Threshold  BY <3>1, Fewer
    <3>3. PICK l \in Jobs : job[l].kind = k /\ (job[l].answer = "escalate" \/ Counting(l))
      BY <2>2, <3>2 DEF EscalationInv
    <3>4. CASE l # j
      <4>1. job'[l] = job[l] /\ (Counting(l)' <=> Counting(l))  BY <2>1, <3>4, Untouched DEF Moved, Formed
      <4> QED  BY <3>3, <4>1
    <3>5. CASE l = j
      <4>1. Counting(j) /\ job[j].kind = k  BY <2>1, <3>3, <3>5 DEF Moved
      <4>2. job'[j].kind = k /\ (Counting(j)' \/ job'[j].answer = "escalate"
                                 \/ ~(Cardinality(Counted(k)) >= Threshold))
        BY <2>1, <4>1 DEF Moved, CountMove
      <4>3. Actives({k}) \subseteq Counted(k)  BY DEF Counted, Actives
      <4>4. Cardinality(Counted(k)) >= Threshold
        BY <3>2, <4>3, Fewer DEF Counted
      <4> QED  BY <4>2, <4>4
    <3> QED  BY <3>4, <3>5
  <2> QED  BY <2>3, <2>4
<1> QED  BY <1>1, <1>2, Ways

\* Whichever way the commands of several moderators interleave, and however many they are: when
\* no call has failed and three of a kind are active, one of them was told so, since each counts
\* after its own row is there.
THEOREM ThirdIsNoticed == Spec => []EscalationNoticed
<1>1. Init => EscalationInv
  <2> SUFFICES ASSUME Init PROVE EscalationInv  OBVIOUS
  <2>1. \A k : Actives({k}) = {}  BY DEF Init, Actives
  <2>2. ASSUME NEW k PROVE ~(Cardinality(Actives({k})) >= Threshold)
    <3>1. Cardinality({}) = 0  BY FS_EmptySet
    <3>2. Cardinality(Actives({k})) = 0  BY <2>1, <3>1
    <3> QED  BY <3>2 DEF Threshold
  <2> QED  BY <2>2 DEF EscalationInv
<1>2. Spec => []EscalationInv  BY <1>1, AlwaysFormed, EscalationStep, PTL DEF Spec
<1>3. Formed /\ EscalationInv => EscalationNoticed
  <2> SUFFICES ASSUME Formed, EscalationInv, Quiet, faults = 0, NEW k \in {"warn", "mute"},
                      Cardinality(Actives({k})) >= Threshold
               PROVE  \E j \in Jobs : job[j].kind = k /\ job[j].answer = "escalate"
    BY DEF EscalationNoticed
  <2>1. PICK j \in Jobs : job[j].kind = k /\ (job[j].answer = "escalate" \/ Counting(j))  BY DEF EscalationInv
  <2>2. JobOK(j) /\ job \in [Jobs -> Job] /\ Started1(j)  BY DEF Formed, Basic, JobOK
  <2>3. Running(j) <=> job[j].kind # "none" /\ job[j].at <= Length(job[j].kind)  BY <2>2, Calls
  <2>4. ~Running(j)  BY DEF Quiet
  <2>5. ~Counting(j)  BY <2>3, <2>4 DEF Counting, Length
  <2> QED  BY <2>1, <2>5
<1> QED  BY <1>2, <1>3, AlwaysFormed, PTL

-----------------------------------------------------------------------------
(* Who is muted can be unmuted.                                            *)

LEMMA MutedStep == Formed /\ MutedInv /\ [Next]_vars => MutedInv'
<1> SUFFICES ASSUME Formed, MutedInv, [Next]_vars, faults' = 0, discord'.timeout = "bot"
             PROVE  Actives({"mute"})' # {} \/ \E j \in Jobs : Owes(j)'
  BY DEF MutedInv
<1>1. CASE Around
  <2>1. AroundMoved  BY <1>1, AroundMoves
  <2>2. \A j \in Jobs : Owes(j) => Owes(j)'  BY <2>1, Untouched DEF AroundMoved, Formed
  <2> QED  BY <2>1, <2>2 DEF MutedInv, AroundMoved
<1>2. ASSUME NEW j \in Jobs, Step(j) PROVE Actives({"mute"})' # {} \/ \E l \in Jobs : Owes(l)'
  <2>1. Moved(j)  BY <1>2, StepMoves
  <2>2. \A l \in Jobs \ {j} : Owes(l) => Owes(l)'  BY <2>1, Untouched DEF Moved, Formed
  <2>3. discord.timeout # "bot" \/ Owes(j) => Owes(j)' \/ Actives({"mute"})' # {}  BY <2>1 DEF Moved, MuteMove
  <2>4. \A i \in Actives({"mute"}) : i \in Actives({"mute"})' \/ Owes(j)'  BY <2>1 DEF Moved, MuteMove
  <2>5. faults = 0  BY <2>1 DEF Moved, Grow
  <2> QED  BY <2>2, <2>3, <2>4, <2>5 DEF MutedInv
<1> QED  BY <1>1, <1>2, Ways

\* Who the bot keeps muted can be unmuted: when no handler runs and no call has failed, an active
\* mute is in the table, or a moderator gave the row up.  mute_user times out before it inserts
\* and unmute_user deactivates before it lifts, so between two steps a command may owe the rest.
THEOREM MutedKeepsRow == Spec => []MutedHasRow
<1>1. Init => MutedInv  BY DEF Init, MutedInv
<1>2. Spec => []MutedInv  BY <1>1, AlwaysFormed, MutedStep, PTL DEF Spec
<1>3. Formed /\ MutedInv => MutedHasRow
  <2> SUFFICES ASSUME Formed, MutedInv, Quiet, faults = 0, discord.timeout = "bot"
               PROVE  Actives({"mute"}) # {} \/ \E j \in Jobs : GaveUp(j)
    BY DEF MutedHasRow
  <2>1. ASSUME NEW j \in Jobs, Owes(j) PROVE GaveUp(j)
    <3>1. JobOK(j) /\ job \in [Jobs -> Job] /\ Started1(j)  BY DEF Formed, Basic, JobOK
    <3>2. Running(j) <=> job[j].kind # "none" /\ job[j].at <= Length(job[j].kind)  BY <3>1, Calls
    <3>3. ~Running(j)  BY DEF Quiet
    <3> QED  BY <2>1, <3>2, <3>3 DEF Owes, Length
  <2> QED  BY <2>1 DEF MutedInv
<1> QED  BY <1>2, <1>3, AlwaysFormed, PTL
-----------------------------------------------------------------------------
(* The log of the events: the programs of its handlers.                     *)

EventKinds == {"delete", "edit", "bulk", "purge", "voice", "channel", "role", "member"}

LEMMA EventKindsAre == DOMAIN Handling = EventKinds
  BY DEF Handling, EventKinds

LEMMA EventFields ==
  ASSUME NEW x \in Event
  PROVE  /\ x.kind \in EventKinds /\ x.m \in Messages \cup {Nobody} /\ x.at \in 1 .. 5
         /\ x.tries \in 0 .. 2 /\ x.by \in Deleters \cup {Nobody}
<1> DEFINE K == DOMAIN Handling
<1>1. x \in [kind : K, m : Messages \cup {Nobody}, at : 1 .. 5, tries : 0 .. 2, by : Deleters \cup {Nobody}]
  BY DEF Event
<1>2. K = EventKinds  BY EventKindsAre
<1> HIDE DEF K
<1> QED  BY <1>1, <1>2

\* Which calls the handler of a deletion makes, and that no handler makes more than four.
LEMMA EventSteps ==
  ASSUME events \in Seq(Event), NEW e \in DOMAIN events
  PROVE  /\ events[e] \in Event
         /\ \A step \in {"actor", "event", "send", "row"} : EventAt(e, step) => events[e].at \in 1 .. 4
         /\ events[e].kind = "delete" =>
              /\ EventAt(e, "actor") <=> events[e].at = 1
              /\ EventAt(e, "event") <=> events[e].at = 2
              /\ EventAt(e, "send") <=> events[e].at = 3
              /\ EventAt(e, "row") <=> events[e].at = 4
<1>0. events[e] \in Event  OBVIOUS
<1>1. events[e] \in Event /\ events[e].kind \in EventKinds /\ events[e].at \in 1 .. 5
  BY <1>0, EventFields
<1>2. CASE events[e].kind = "delete"
  <2>1. Handling[events[e].kind] = <<"actor", "event", "send", "row">>  BY <1>2 DEF Handling, log_message_delete
  <2> QED  BY <1>1, <1>2, <2>1 DEF EventAt
<1>3. CASE events[e].kind \in {"edit", "purge"}
  <2>1. Handling[events[e].kind] = <<"event", "send", "row">>  BY <1>3 DEF Handling, log_message_edit
  <2> QED  BY <1>1, <1>3, <2>1 DEF EventAt
<1>4. CASE events[e].kind \in {"bulk", "voice", "channel", "role", "member"}
  <2>1. Handling[events[e].kind] = <<"event", "send">>  BY <1>4 DEF Handling, log_bulk_delete, log_event
  <2> QED  BY <1>1, <1>4, <2>1 DEF EventAt
<1> QED  BY <1>1, <1>2, <1>3, <1>4 DEF EventKinds

LEMMA HandlerIs ==
  ASSUME NEW kind \in EventKinds, NEW m \in Messages \cup {Nobody}
  PROVE  /\ Handler(kind, m) \in Event
         /\ Handler(kind, m).kind = kind /\ Handler(kind, m).m = m /\ Handler(kind, m).at = 1
<1>1. PICK k \in DOMAIN Handling : k = kind  BY EventKindsAre
<1>2. PICK by \in Deleters \cup {Nobody} : by = Nobody  OBVIOUS
<1>3. Handler(kind, m) = [kind |-> k, m |-> m, at |-> 1, tries |-> 0, by |-> by]  BY <1>1, <1>2 DEF Handler
<1> QED  BY <1>1, <1>3 DEF Event

\* What the calls of a handler make of it.
LEMMA DoneIs ==
  ASSUME events \in Seq(Event), NEW e \in DOMAIN events, events[e].at \in 1 .. 4
  PROVE  /\ Done(e) \in Event /\ Done(e).kind = events[e].kind /\ Done(e).m = events[e].m
         /\ Done(e).at = events[e].at + 1 /\ Done(e).tries = events[e].tries /\ Done(e).by = events[e].by
<1> DEFINE K == DOMAIN Handling
<1>1. Event = [kind : K, m : Messages \cup {Nobody}, at : 1 .. 5, tries : 0 .. 2, by : Deleters \cup {Nobody}]
  BY DEF Event
<1>2. events[e] \in Event  OBVIOUS
<1> HIDE DEF K
<1> QED  BY <1>1, <1>2 DEF Done

LEMMA CreditIs ==
  ASSUME events \in Seq(Event), NEW e \in DOMAIN events, events[e].at \in 1 .. 4, NEW who \in Deleters
  PROVE  /\ Credit(e, who) \in Event /\ Credit(e, who).kind = events[e].kind
         /\ Credit(e, who).m = events[e].m /\ Credit(e, who).at = events[e].at + 1
<1> DEFINE K == DOMAIN Handling
<1>1. Event = [kind : K, m : Messages \cup {Nobody}, at : 1 .. 5, tries : 0 .. 2, by : Deleters \cup {Nobody}]
  BY DEF Event
<1>2. PICK x \in Event : x = Done(e) /\ x.kind = events[e].kind /\ x.m = events[e].m /\ x.at = events[e].at + 1
  BY DoneIs
<1>3. Credit(e, who) = [x EXCEPT !.by = who]  BY <1>2 DEF Credit
<1> HIDE DEF K
<1> QED  BY <1>1, <1>2, <1>3

LEMMA TriedIs ==
  ASSUME NEW x \in Event, x.tries + 1 < Attempts
  PROVE  LET y == [x EXCEPT !.tries = @ + 1]
         IN  y \in Event /\ y.kind = x.kind /\ y.m = x.m /\ y.at = x.at /\ y.by = x.by
<1> DEFINE K == DOMAIN Handling
<1>1. Event = [kind : K, m : Messages \cup {Nobody}, at : 1 .. 5, tries : 0 .. 2, by : Deleters \cup {Nobody}]
  BY DEF Event
<1> HIDE DEF K
<1> QED  BY <1>1 DEF Attempts

LEMMA BrokenOffIs ==
  ASSUME NEW x \in Event
  PROVE  LET y == [x EXCEPT !.at = 5]
         IN  y \in Event /\ y.kind = x.kind /\ y.m = x.m /\ y.at = 5 /\ y.by = x.by
<1> DEFINE K == DOMAIN Handling
<1>1. Event = [kind : K, m : Messages \cup {Nobody}, at : 1 .. 5, tries : 0 .. 2, by : Deleters \cup {Nobody}]
  BY DEF Event
<1> HIDE DEF K
<1> QED  BY <1>1

\* A deletion of the bot is known from the start, any other is looked for.
LEMMA DeleteHandlerIs ==
  ASSUME NEW m \in Messages
  PROVE  /\ DeleteHandler(m) \in Event
         /\ DeleteHandler(m).kind = "delete" /\ DeleteHandler(m).m = m
         /\ DeleteHandler(m).at \in {1, 2}
         /\ m \in botDeleted => DeleteHandler(m).at = 2 /\ DeleteHandler(m).by = "bot"
<1> DEFINE K == DOMAIN Handling
<1>1. Event = [kind : K, m : Messages \cup {Nobody}, at : 1 .. 5, tries : 0 .. 2, by : Deleters \cup {Nobody}]
  BY DEF Event
<1>2. PICK x \in Event : x = Handler("delete", m) /\ x.kind = "delete" /\ x.m = m /\ x.at = 1
  BY HandlerIs DEF EventKinds
<1>3. PICK who \in Deleters \cup {Nobody} : who = "bot"  BY DEF Deleters
<1>4. PICK z : z = [x EXCEPT !.at = 2]  OBVIOUS
<1>5. PICK y : y = [z EXCEPT !.by = who]  OBVIOUS
<1>6. DeleteHandler(m) = IF m \in botDeleted THEN y ELSE x  BY <1>2, <1>3, <1>4, <1>5 DEF DeleteHandler
<1> HIDE DEF K
<1>7. z \in Event /\ z.kind = x.kind /\ z.m = x.m /\ z.at = 2  BY <1>1, <1>4
<1>8. y \in Event /\ y.kind = z.kind /\ y.m = z.m /\ y.at = z.at /\ y.by = who  BY <1>1, <1>5, <1>7
<1> QED  BY <1>2, <1>3, <1>6, <1>7, <1>8

\* One of the two listeners takes a deletion, if any: the raw one what disnake has forgotten.
LEMMA HandlersAre ==
  ASSUME NEW m \in Messages, NEW cached \in BOOLEAN
  PROVE  /\ cached \/ Contains(recent, m) => Handlers(m, cached) = <<DeleteHandler(m)>>
         /\ ~cached /\ ~Contains(recent, m) => Handlers(m, cached) = <<>>
<1>0. <<DeleteHandler(m)>> \in Seq(Event)  BY DeleteHandlerIs
<1>1. RawTakes(m, cached) <=> ~cached /\ Contains(recent, m)  BY DEF RawTakes
<1>2. CASE cached
  <2>1. Handlers(m, cached) = <<>> \o <<DeleteHandler(m)>>  BY <1>1, <1>2 DEF Handlers
  <2> QED  BY <1>0, <1>2, <2>1, ConcatEmptySeq
<1>3. CASE ~cached /\ Contains(recent, m)
  <2>1. Handlers(m, cached) = <<DeleteHandler(m)>> \o <<>>  BY <1>1, <1>3 DEF Handlers
  <2> QED  BY <1>0, <1>3, <2>1, ConcatEmptySeq
<1>4. CASE ~cached /\ ~Contains(recent, m)
  <2>1. Handlers(m, cached) = <<>> \o <<>>  BY <1>1, <1>4 DEF Handlers
  <2> QED  BY <1>4, <2>1
<1> QED  BY <1>2, <1>3, <1>4

-----------------------------------------------------------------------------
(* The messages the log remembers.                                          *)

LEMMA MaxIs == \A n \in Int : Max({1, n}) = IF n >= 1 THEN n ELSE 1
<1> SUFFICES ASSUME NEW n \in Int  PROVE Max({1, n}) = IF n >= 1 THEN n ELSE 1  OBVIOUS
<1> DEFINE top == IF n >= 1 THEN n ELSE 1
<1>1. top \in {1, n} /\ \A y \in {1, n} : top >= y  OBVIOUS
<1>2. \A x \in {1, n} : (\A y \in {1, n} : x >= y) => x = top  OBVIOUS
<1>3. Max({1, n}) \in {1, n} /\ \A y \in {1, n} : Max({1, n}) >= y  BY <1>1 DEF Max
<1> QED  BY <1>2, <1>3

LEMMA NewestAre ==
  ASSUME written \in Seq(Messages), NEW m \in Newest
  PROVE  \E p \in DOMAIN written : p > Len(written) - Limit /\ written[p] = m
<1> DEFINE n == Len(written) - Limit + 1
           a == Max({1, n})
<1>1. Len(written) \in Nat /\ Limit \in Nat /\ n \in Int  BY GuildEventsAssumption
<1>2. a \in Int /\ a >= 1 /\ a >= n  BY <1>1, MaxIs
<1>3. m \in Range(SubSeq(written, a, Len(written)))  BY DEF Newest
<1> HIDE DEF a
<1>4. \A i \in a .. Len(written) : written[i] \in Messages  BY <1>2
<1>5. /\ SubSeq(written, a, Len(written)) \in Seq(Messages)
      /\ Len(SubSeq(written, a, Len(written))) = IF a <= Len(written) THEN Len(written) - a + 1 ELSE 0
      /\ \A i \in 1 .. Len(written) - a + 1 : SubSeq(written, a, Len(written))[i] = written[a + i - 1]
  BY <1>1, <1>2, <1>4, SubSeqProperties
<1>6. PICK i \in 1 .. Len(SubSeq(written, a, Len(written))) : m = SubSeq(written, a, Len(written))[i]
  BY <1>3, <1>5 DEF Range
<1>7. a + i - 1 \in DOMAIN written /\ a + i - 1 > Len(written) - Limit /\ written[a + i - 1] = m
  BY <1>1, <1>2, <1>5, <1>6
<1> QED  BY <1>7

\* Taking a message out of what is remembered.
LEMMA ForgottenIs ==
  ASSUME recent \in Seq(Messages), NEW m, NEW left, left = RemoveFirst(recent, m)
  PROVE  /\ left \in Seq(Messages) /\ Len(left) <= Len(recent)
         /\ \A x \in Messages \ {m} : Contains(recent, x) => Contains(left, x)
         /\ \A i \in DOMAIN left : \E j \in DOMAIN recent :
               recent[j] = left[i] /\ j - Len(recent) <= i - Len(left)
<1>1. CASE ~ \E i \in 1 .. Len(recent) : recent[i] = m
  <2>1. left = recent  BY <1>1 DEF RemoveFirst
  <2> QED  BY <2>1
<1>2. CASE \E i \in 1 .. Len(recent) : recent[i] = m
  <2> DEFINE I == {i \in 1 .. Len(recent) : recent[i] = m}
             k == SelectInSeq(recent, LAMBDA v : v = m)
             head == SubSeq(recent, 1, k - 1)
             tail == SubSeq(recent, k + 1, Len(recent))
  <2>1. k \in I
    <3>1. k = Min(I)  BY <1>2 DEF SelectInSeq
    <3>2. PICK i0 \in I : TRUE  BY <1>2
    <3>3. \E i \in I : \A l \in I : i <= l
      <4> DEFINE N == {n \in Nat : n \in I}
      <4>1. N # {} /\ N \subseteq Nat /\ N = I  BY <3>2
      <4>2. PICK n \in N : \A l \in N : ~(<<l, n>> \in OpToRel(<, Nat))
        BY <4>1, NatLessThanWellFounded, WFMin
      <4>3. \A l \in N : ~(l < n)  BY <4>2 DEF OpToRel
      <4> QED  BY <4>1, <4>3
    <3> QED  BY <3>1, <3>3 DEF Min
  <2>2. left = head \o tail  BY <1>2 DEF RemoveFirst, RemoveAt
  <2> HIDE DEF k
  <2>3. k \in 1 .. Len(recent) /\ recent[k] = m /\ Len(recent) \in Nat  BY <2>1
  <2>4. \A i \in 1 .. Len(recent) : recent[i] \in Messages  OBVIOUS
  <2>5. /\ head \in Seq(Messages) /\ Len(head) = k - 1 /\ \A i \in 1 .. k - 1 : head[i] = recent[i]
    <3>1. 1 \in Int /\ k - 1 \in Int /\ \A i \in 1 .. k - 1 : recent[i] \in Messages  BY <2>3, <2>4
    <3> QED  BY <2>3, <3>1, SubSeqProperties
  <2>6. /\ tail \in Seq(Messages) /\ Len(tail) = Len(recent) - k
        /\ \A i \in 1 .. Len(recent) - k : tail[i] = recent[k + i]
    <3>1. k + 1 \in Int /\ Len(recent) \in Int /\ \A i \in k + 1 .. Len(recent) : recent[i] \in Messages
      BY <2>3, <2>4
    <3> QED  BY <2>3, <3>1, SubSeqProperties
  <2> HIDE DEF head, tail
  <2>7. /\ left \in Seq(Messages) /\ Len(left) = Len(recent) - 1
        /\ \A i \in 1 .. Len(recent) - 1 : left[i] = IF i < k THEN recent[i] ELSE recent[i + 1]
    <3>1. left \in Seq(Messages) /\ Len(left) = Len(head) + Len(tail)  BY <2>2, <2>5, <2>6, ConcatProperties
    <3>2. \A i \in 1 .. Len(head) + Len(tail) :
            (head \o tail)[i] = IF i <= Len(head) THEN head[i] ELSE tail[i - Len(head)]
      BY <2>5, <2>6, ConcatProperties
    <3>4. Len(head) + Len(tail) = Len(recent) - 1  BY <2>3, <2>5, <2>6
    <3>3. ASSUME NEW i \in 1 .. Len(recent) - 1
          PROVE  left[i] = IF i < k THEN recent[i] ELSE recent[i + 1]
      <4>1. CASE i < k
        <5>1. i <= Len(head) /\ i \in 1 .. k - 1 /\ i \in 1 .. Len(head) + Len(tail)  BY <2>3, <2>5, <3>4, <4>1
        <5>2. left[i] = head[i]  BY <2>2, <3>2, <5>1
        <5> QED  BY <2>5, <4>1, <5>1, <5>2
      <4>2. CASE i >= k
        <5>1. i - (k - 1) \in 1 .. Len(recent) - k /\ k + (i - (k - 1)) = i + 1  BY <2>3, <4>2
        <5>3. ~(i <= Len(head)) /\ Len(head) = k - 1 /\ i \in 1 .. Len(head) + Len(tail)  BY <2>3, <2>5, <3>4, <4>2
        <5>2. left[i] = tail[i - (k - 1)]  BY <2>2, <3>2, <5>3
        <5> QED  BY <2>3, <2>6, <4>2, <5>1, <5>2
      <4> QED  BY <2>3, <4>1, <4>2
    <3> QED  BY <2>3, <2>5, <2>6, <3>1, <3>3
  <2>8. ASSUME NEW x \in Messages \ {m}, Contains(recent, x)  PROVE Contains(left, x)
    <3>1. PICK j \in 1 .. Len(recent) : recent[j] = x  BY <2>8 DEF Contains
    <3>2. CASE j < k  BY <2>3, <2>7, <3>1, <3>2 DEF Contains
    <3>3. CASE j > k
      <4>1. j - 1 \in 1 .. Len(left) /\ left[j - 1] = recent[j]  BY <2>3, <2>7, <3>3
      <4> QED  BY <3>1, <4>1 DEF Contains
    <3> QED  BY <2>3, <3>1, <3>2, <3>3
  <2>9. ASSUME NEW i \in DOMAIN left
        PROVE  \E j \in DOMAIN recent : recent[j] = left[i] /\ j - Len(recent) <= i - Len(left)
    <3>1. i \in 1 .. Len(recent) - 1  BY <2>7
    <3>2. CASE i < k  BY <2>3, <2>7, <3>1, <3>2
    <3>3. CASE i >= k
      <4>1. i + 1 \in DOMAIN recent /\ left[i] = recent[i + 1]  BY <2>3, <2>7, <3>1, <3>3
      <4> QED  BY <2>3, <2>7, <3>1, <4>1
    <3> QED  BY <2>3, <3>1, <3>2, <3>3
  <2> QED  BY <2>3, <2>7, <2>8, <2>9
<1> QED  BY <1>1, <1>2


\* Adding one, which pushes out the oldest when there are Limit.
LEMMA RememberedIs ==
  ASSUME recent \in Seq(Messages), Len(recent) <= Limit, NEW m \in Messages, NEW all, all = Remembered(m)
  PROVE  /\ all \in Seq(Messages) /\ Len(all) <= Limit /\ Contains(all, m)
         /\ \A i \in DOMAIN all :
              \/ i = Len(all) /\ all[i] = m
              \/ \E j \in DOMAIN recent : recent[j] = all[i] /\ j - Len(recent) - 1 <= i - Len(all)
         /\ \A x : Contains(recent, x) => Contains(all, x) \/ (Len(recent) = Limit /\ recent[1] = x)
<1>1. Limit \in Nat \ {0} /\ Len(recent) \in Nat  BY GuildEventsAssumption
<1> DEFINE longer == Append(recent, m)
<1>2. /\ longer \in Seq(Messages) /\ Len(longer) = Len(recent) + 1
      /\ longer[Len(recent) + 1] = m /\ \A i \in 1 .. Len(recent) : longer[i] = recent[i]
  BY AppendProperties
<1>3. all = IF Len(longer) > Limit THEN Tail(longer) ELSE longer  BY DEF Remembered
<1> HIDE DEF longer
<1>4. CASE Len(longer) > Limit
  <2>1. Len(recent) = Limit /\ longer # <<>>  BY <1>1, <1>2, <1>4
  <2>2. all \in Seq(Messages) /\ Len(all) = Len(recent) /\ \A i \in 1 .. Len(recent) : all[i] = longer[i + 1]
    BY <1>2, <1>3, <1>4, <2>1, HeadTailProperties
  <2>3. all[Len(recent)] = m  BY <1>1, <1>2, <2>1, <2>2
  <2>4. ASSUME NEW i \in DOMAIN all
        PROVE  \/ i = Len(all) /\ all[i] = m
               \/ \E j \in DOMAIN recent : recent[j] = all[i] /\ j - Len(recent) - 1 <= i - Len(all)
    <3>1. CASE i = Len(recent)  BY <2>2, <2>3, <3>1
    <3>2. CASE i # Len(recent)
      <4>1. i + 1 \in DOMAIN recent /\ all[i] = recent[i + 1]  BY <1>1, <1>2, <2>2, <3>2
      <4> QED  BY <1>1, <2>2, <4>1
    <3> QED  BY <3>1, <3>2
  <2>5. ASSUME NEW x, Contains(recent, x)
        PROVE  Contains(all, x) \/ (Len(recent) = Limit /\ recent[1] = x)
    <3>1. PICK j \in 1 .. Len(recent) : recent[j] = x  BY <2>5 DEF Contains
    <3>2. CASE j = 1  BY <2>1, <3>1, <3>2
    <3>3. CASE j # 1
      <4>1. j - 1 \in 1 .. Len(all) /\ all[j - 1] = recent[j]  BY <1>1, <1>2, <2>2, <3>3
      <4> QED  BY <3>1, <4>1 DEF Contains
    <3> QED  BY <3>2, <3>3
  <2>6. Len(recent) \in 1 .. Len(all)  BY <1>1, <2>1, <2>2
  <2> QED  BY <2>1, <2>2, <2>3, <2>4, <2>5, <2>6 DEF Contains
<1>5. CASE ~(Len(longer) > Limit)
  <2>1. all = longer  BY <1>3, <1>5
  <2>2. ASSUME NEW i \in DOMAIN all
        PROVE  \/ i = Len(all) /\ all[i] = m
               \/ \E j \in DOMAIN recent : recent[j] = all[i] /\ j - Len(recent) - 1 <= i - Len(all)
    <3>1. i \in 1 .. Len(recent) + 1  BY <1>2, <2>1
    <3>2. CASE i = Len(recent) + 1  BY <1>2, <2>1, <3>2
    <3>3. CASE i # Len(recent) + 1
      <4>1. i \in DOMAIN recent /\ all[i] = recent[i]  BY <1>1, <1>2, <2>1, <3>1, <3>3
      <4> QED  BY <1>1, <1>2, <2>1, <4>1
    <3> QED  BY <3>2, <3>3
  <2>3. ASSUME NEW x, Contains(recent, x)  PROVE Contains(all, x)
    <3>1. PICK j \in 1 .. Len(recent) : recent[j] = x  BY <2>3 DEF Contains
    <3>2. j \in 1 .. Len(all) /\ all[j] = x  BY <1>1, <1>2, <2>1, <3>1
    <3> QED  BY <3>2 DEF Contains
  <2>4. Len(all) <= Limit /\ Len(recent) + 1 \in 1 .. Len(all)  BY <1>1, <1>2, <1>5, <2>1
  <2> QED  BY <1>2, <2>1, <2>2, <2>3, <2>4 DEF Contains
<1> QED  BY <1>4, <1>5

-----------------------------------------------------------------------------
(* The invariant of the log.                                                *)

LogTyped ==
    /\ there \in [Messages -> {"no", "yes"} \cup Deleters]
    /\ written \in Seq(Messages) /\ recent \in Seq(Messages)
    /\ audit \in Seq([by : Deleters, state : {"coming", "seen", "old"}])
    /\ botDeleted \subseteq Messages /\ ai \in [Messages -> {"idle", "delete", "done"}]
    /\ events \in Seq(Event)
    /\ logged \cup sent \cup stored \subseteq DOMAIN events
    /\ owed \subseteq Messages /\ failed \in 0 .. MaxFailed

\* What is remembered is in the order in which it was written, with gaps: so what is pushed out
\* is none of the newest.  Of the newest, what is still there is remembered.
InOrder ==
    \A i \in DOMAIN recent : \E p \in DOMAIN written :
        written[p] = recent[i] /\ p - Len(written) <= i - Len(recent)
WrittenOnce ==
    /\ \A p, q \in DOMAIN written : written[p] = written[q] => p = q
    /\ \A p \in DOMAIN written : there[written[p]] # "no"
RecentKept ==
    \A p \in DOMAIN written :
        p > Len(written) - Limit /\ there[written[p]] = "yes" => Contains(recent, written[p])
MemoryInv == Len(recent) <= Limit /\ InOrder /\ WrittenOnce /\ RecentKept

\* The handler of a deletion: of a message that is gone, by the bot from the start if it was the
\* bot; one that is over has stored the message, unless a call has failed.
Deletes(e) == events[e].kind = "delete"
DeletionOK(e) ==
    Deletes(e) =>
        /\ events[e].m \in Messages /\ there[events[e].m] \in Deleters
        /\ there[events[e].m] = "bot" => events[e].at >= 2 /\ events[e].by = "bot"
        /\ failed = 0 /\ events[e].at > 4 => e \in stored
EventsInv ==
    /\ \A e \in DOMAIN events : DeletionOK(e)
    /\ \A e, f \in DOMAIN events : Deletes(e) /\ Deletes(f) /\ events[e].m = events[f].m => e = f
    /\ \A m \in owed : \E e \in DOMAIN events : Deletes(e) /\ events[e].m = m

\* The bot registers what it deletes, a message that was written, and nobody takes that from it
\* before the deletion.
Registered ==
    \A m \in Messages : ai[m] = "delete" => there[m] # "no" /\ (there[m] = "yes" => m \in botDeleted)

LogInv == LogTyped /\ MemoryInv /\ EventsInv /\ Registered

LEMMA LogInvInit == EventsInit => LogInv
<1> SUFFICES ASSUME EventsInit  PROVE LogInv  OBVIOUS
<1>1. LogTyped  BY GuildEventsAssumption DEF EventsInit, LogTyped
<1>2. MemoryInv  BY GuildEventsAssumption DEF EventsInit, MemoryInv, InOrder, WrittenOnce, RecentKept
<1>3. EventsInv  BY DEF EventsInit, EventsInv
<1>4. Registered  BY DEF EventsInit, Registered
<1> QED  BY <1>1, <1>2, <1>3, <1>4 DEF LogInv

\* No deletion is undone, and no other handler of one begins.
Gone1 == \A m \in Messages : there[m] \in Deleters => there'[m] = there[m]
Grown ==
    /\ DOMAIN events \subseteq DOMAIN events' /\ \A e \in DOMAIN events : events'[e] = events[e]
    /\ \A e \in DOMAIN events' \ DOMAIN events : events'[e].kind # "delete"

LEMMA EventsGrow ==
  ASSUME EventsInv, Grown, Gone1, stored' = stored, owed' = owed, failed' = 0 => failed = 0
  PROVE  EventsInv'
<1>1. \A e \in DOMAIN events' : Deletes(e)' => e \in DOMAIN events /\ Deletes(e) /\ events'[e] = events[e]
  BY DEF Grown, Deletes
<1>2. ASSUME NEW e \in DOMAIN events', Deletes(e)'  PROVE DeletionOK(e)'
  <2>1. DeletionOK(e) /\ Deletes(e) /\ events'[e] = events[e]  BY <1>1, <1>2 DEF EventsInv
  <2> QED  BY <2>1 DEF DeletionOK, Gone1
<1>3. ASSUME NEW e \in DOMAIN events'  PROVE DeletionOK(e)'
  BY <1>2 DEF DeletionOK
<1>4. \A e, f \in DOMAIN events' : Deletes(e)' /\ Deletes(f)' /\ events'[e].m = events'[f].m => e = f
  BY <1>1 DEF EventsInv
<1>5. \A m \in owed' : \E e \in DOMAIN events' : Deletes(e)' /\ events'[e].m = m
  BY DEF EventsInv, Grown, Deletes
<1> QED  BY <1>3, <1>4, <1>5 DEF EventsInv

LEMMA OneAppended ==
  ASSUME events \in Seq(Event), NEW h \in Event, events' = Append(events, h)
  PROVE  /\ events' \in Seq(Event) /\ Len(events') = Len(events) + 1 /\ events'[Len(events) + 1] = h
         /\ DOMAIN events \subseteq DOMAIN events' /\ \A e \in DOMAIN events : events'[e] = events[e]
         /\ DOMAIN events' = DOMAIN events \cup {Len(events) + 1}
         /\ h.kind # "delete" => Grown
  BY AppendProperties DEF Grown

LEMMA Unheard == UNCHANGED events => Grown
  BY DEF Grown

-----------------------------------------------------------------------------
(* What keeps the invariant of the log.                                     *)

\* What the log remembers stays right while nothing is written and nothing comes back.
LEMMA MemoryKept ==
  ASSUME LogTyped, MemoryInv, UNCHANGED written, UNCHANGED recent,
         \A m \in Messages : there'[m] \in {"no", "yes"} => there'[m] = there[m]
  PROVE  MemoryInv'
<1>1. \A p \in DOMAIN written : written[p] \in Messages  BY DEF LogTyped
<1>2. Len(recent') <= Limit /\ InOrder'  BY DEF MemoryInv, InOrder
<1>3. WrittenOnce'  BY <1>1 DEF MemoryInv, WrittenOnce
<1>4. RecentKept'  BY <1>1 DEF MemoryInv, RecentKept
<1> QED  BY <1>2, <1>3, <1>4 DEF MemoryInv

LEMMA Same ==
  ASSUME LogInv, UNCHANGED <<there, written, recent, botDeleted, ai, events, tables, owed>>,
         audit' \in Seq([by : Deleters, state : {"coming", "seen", "old"}]),
         failed' \in 0 .. MaxFailed, failed' = 0 => failed = 0
  PROVE  LogInv'
<1>1. LogTyped'  BY DEF LogInv, LogTyped, tables
<1>2. MemoryInv'  BY MemoryKept DEF LogInv
<1>3. EventsInv'  BY Unheard, EventsGrow DEF LogInv, Gone1, tables
<1>4. Registered'  BY DEF LogInv, Registered
<1> QED  BY <1>1, <1>2, <1>3, <1>4 DEF LogInv

\* An event that is no deletion.
LEMMA Noticed ==
  ASSUME LogInv, NEW h \in Event, h.kind # "delete", events' = Append(events, h),
         UNCHANGED <<there, written, audit, recent, botDeleted, ai, tables, owed, failed>>
  PROVE  LogInv'
<1>1. Grown /\ events' \in Seq(Event)  BY OneAppended DEF LogInv, LogTyped
<1>2. LogTyped'
  <2>1. DOMAIN events \subseteq DOMAIN events'  BY <1>1 DEF Grown
  <2> QED  BY <1>1, <2>1 DEF LogInv, LogTyped, tables
<1>3. MemoryInv'  BY MemoryKept DEF LogInv
<1>4. EventsInv'  BY <1>1, EventsGrow DEF LogInv, Gone1, tables
<1>5. Registered'  BY DEF LogInv, Registered
<1> QED  BY <1>2, <1>3, <1>4, <1>5 DEF LogInv

LEMMA Written ==
  ASSUME LogInv, NEW m \in Messages, Write(m)
  PROVE  LogInv'
<1>1. there[m] = "no" /\ there' = [there EXCEPT ![m] = "yes"] /\ written' = Append(written, m)
  BY DEF Write
<1>2. PICK all : all = recent' /\ all = Remembered(m)  BY DEF Write
<1>3. UNCHANGED <<audit, botDeleted, ai, events, logged, sent, stored, owed, failed>>
  BY DEF Write, tables, seen
<1>4. LogTyped /\ Len(recent) <= Limit /\ InOrder /\ WrittenOnce /\ RecentKept  BY DEF LogInv, MemoryInv
<1>5. /\ there \in [Messages -> {"no", "yes"} \cup Deleters]
      /\ written \in Seq(Messages) /\ recent \in Seq(Messages)
      /\ Limit \in Nat \ {0} /\ Len(written) \in Nat /\ Len(recent) \in Nat
  BY <1>4, GuildEventsAssumption DEF LogTyped
<1>6. /\ all \in Seq(Messages) /\ Len(all) <= Limit /\ Contains(all, m)
      /\ \A i \in DOMAIN all :
           \/ i = Len(all) /\ all[i] = m
           \/ \E j \in DOMAIN recent : recent[j] = all[i] /\ j - Len(recent) - 1 <= i - Len(all)
      /\ \A x : Contains(recent, x) => Contains(all, x) \/ (Len(recent) = Limit /\ recent[1] = x)
  BY <1>2, <1>4, <1>5, RememberedIs
<1>7. /\ written' \in Seq(Messages) /\ Len(written') = Len(written) + 1
      /\ DOMAIN written' = DOMAIN written \cup {Len(written) + 1}
      /\ written'[Len(written) + 1] = m /\ \A p \in DOMAIN written : written'[p] = written[p]
  BY <1>1, <1>5, AppendProperties
<1>8. /\ \A x \in Messages : there'[x] = IF x = m THEN "yes" ELSE there[x]
      /\ there' \in [Messages -> {"no", "yes"} \cup Deleters]
  BY <1>1, <1>5
<1>9. \A p \in DOMAIN written : written[p] \in Messages /\ written[p] # m
  BY <1>1, <1>4, <1>5 DEF WrittenOnce
<1>10. LogTyped'  BY <1>2, <1>3, <1>4, <1>6, <1>7, <1>8 DEF LogTyped
<1>11. InOrder'
  <2> SUFFICES ASSUME NEW i \in DOMAIN all
               PROVE  \E p \in DOMAIN written' : written'[p] = all[i] /\ p - Len(written') <= i - Len(all)
    BY <1>2 DEF InOrder
  <2>0. Len(all) \in Nat /\ i \in Nat  BY <1>6
  <2>1. CASE i = Len(all) /\ all[i] = m  BY <1>5, <1>7, <2>0, <2>1
  <2>2. CASE \E j \in DOMAIN recent : recent[j] = all[i] /\ j - Len(recent) - 1 <= i - Len(all)
    <3>1. PICK j \in DOMAIN recent : recent[j] = all[i] /\ j - Len(recent) - 1 <= i - Len(all)  BY <2>2
    <3>2. PICK p \in DOMAIN written : written[p] = recent[j] /\ p - Len(written) <= j - Len(recent)
      BY <1>4 DEF InOrder
    <3>3. p \in Nat /\ j \in Nat  BY <1>5
    <3>4. p - Len(written') <= i - Len(all)  BY <1>5, <1>7, <2>0, <3>1, <3>2, <3>3
    <3> QED  BY <1>7, <3>1, <3>2, <3>4
  <2> QED  BY <1>6, <2>1, <2>2
<1>12. WrittenOnce'
  <2>1. \A p, q \in DOMAIN written' : written'[p] = written'[q] => p = q
    BY <1>4, <1>7, <1>9 DEF WrittenOnce
  <2>2. \A p \in DOMAIN written' : there'[written'[p]] # "no"
    BY <1>4, <1>7, <1>8, <1>9 DEF WrittenOnce
  <2> QED  BY <2>1, <2>2 DEF WrittenOnce
<1>13. RecentKept'
  <2> SUFFICES ASSUME NEW p \in DOMAIN written', p > Len(written') - Limit, there'[written'[p]] = "yes"
               PROVE  Contains(all, written'[p])
    BY <1>2 DEF RecentKept
  <2>1. CASE p = Len(written) + 1  BY <1>6, <1>7, <2>1
  <2>2. CASE p \in DOMAIN written
    <3>1. p \in Nat /\ written'[p] = written[p] /\ p > Len(written) - Limit  BY <1>5, <1>7, <2>2
    <3>2. there[written[p]] = "yes"  BY <1>8, <1>9, <2>2, <3>1
    <3>3. Contains(recent, written[p])  BY <1>4, <2>2, <3>1, <3>2 DEF RecentKept
    <3>4. ASSUME Len(recent) = Limit, recent[1] = written[p]  PROVE FALSE
      <4>1. 1 \in DOMAIN recent  BY <1>5, <3>4
      <4>2. PICK q \in DOMAIN written : written[q] = recent[1] /\ q - Len(written) <= 1 - Len(recent)
        BY <1>4, <4>1 DEF InOrder
      <4>3. q = p  BY <1>4, <2>2, <3>4, <4>2 DEF WrittenOnce
      <4>4. p - Len(written) <= 1 - Limit /\ p > Len(written) + 1 - Limit  BY <1>5, <1>7, <3>4, <4>2, <4>3
      <4> QED  BY <1>5, <3>1, <4>4
    <3> QED  BY <1>6, <3>1, <3>3, <3>4
  <2> QED  BY <1>7, <2>1, <2>2
<1>14. MemoryInv'  BY <1>2, <1>6, <1>11, <1>12, <1>13 DEF MemoryInv
<1>15. EventsInv'
  <2>1. Gone1  BY <1>1, <1>8 DEF Gone1, Deleters
  <2> QED  BY <1>3, <2>1, Unheard, EventsGrow DEF LogInv
<1>16. Registered'
  BY <1>1, <1>3, <1>8 DEF LogInv, Registered
<1> QED  BY <1>10, <1>14, <1>15, <1>16 DEF LogInv

\* A message is deleted: the only handler of that, if there is one, begins.
LEMMA Deleted ==
  ASSUME LogInv, NEW m \in Messages, NEW who \in Deleters, there[m] = "yes", Gone(m, who),
         who = "bot" => m \in botDeleted, failed' = failed,
         ai' \in [Messages -> {"idle", "delete", "done"}], \A x \in Messages : x # m => ai'[x] = ai[x]
  PROVE  LogInv'
<1>1. PICK cached \in BOOLEAN :
        /\ there' = [there EXCEPT ![m] = who]
        /\ audit' = IF who = "author" THEN audit ELSE Append(audit, [by |-> Executor(who), state |-> "coming"])
        /\ recent' = RemoveFirst(recent, m)
        /\ events' = events \o Handlers(m, cached)
        /\ botDeleted' = IF Handlers(m, cached) = <<>> THEN botDeleted ELSE botDeleted \ {m}
        /\ owed' = IF cached \/ m \in Newest THEN owed \cup {m} ELSE owed
        /\ UNCHANGED <<written, logged, sent, stored>>
  BY DEF Gone, tables
<1>2. PICK left : left = recent' /\ left = RemoveFirst(recent, m)  BY <1>1
<1>3. LogTyped /\ Len(recent) <= Limit /\ InOrder /\ WrittenOnce /\ RecentKept /\ EventsInv /\ Registered
  BY DEF LogInv, MemoryInv
<1>4. /\ there \in [Messages -> {"no", "yes"} \cup Deleters]
      /\ written \in Seq(Messages) /\ recent \in Seq(Messages) /\ events \in Seq(Event)
      /\ Limit \in Nat \ {0} /\ Len(written) \in Nat /\ Len(recent) \in Nat
  BY <1>3, GuildEventsAssumption DEF LogTyped
<1>5. /\ left \in Seq(Messages) /\ Len(left) <= Len(recent)
      /\ \A x \in Messages \ {m} : Contains(recent, x) => Contains(left, x)
      /\ \A i \in DOMAIN left : \E j \in DOMAIN recent :
            recent[j] = left[i] /\ j - Len(recent) <= i - Len(left)
  BY <1>2, <1>4, ForgottenIs
<1>6. /\ \A x \in Messages : there'[x] = IF x = m THEN who ELSE there[x]
      /\ there' \in [Messages -> {"no", "yes"} \cup Deleters] /\ who \notin {"no", "yes"}
  BY <1>1, <1>4 DEF Deleters
<1>7. DeleteHandler(m) \in Event /\ \A p \in DOMAIN written : written[p] \in Messages
  BY <1>4, DeleteHandlerIs
<1>8. MemoryInv'
  <2>1. Len(left) \in Nat /\ Len(left) <= Limit  BY <1>3, <1>4, <1>5
  <2>2. InOrder'
    <3> SUFFICES ASSUME NEW i \in DOMAIN left
                 PROVE  \E p \in DOMAIN written : written[p] = left[i] /\ p - Len(written) <= i - Len(left)
      BY <1>1, <1>2 DEF InOrder
    <3>1. PICK j \in DOMAIN recent : recent[j] = left[i] /\ j - Len(recent) <= i - Len(left)  BY <1>5
    <3>2. PICK p \in DOMAIN written : written[p] = recent[j] /\ p - Len(written) <= j - Len(recent)
      BY <1>3 DEF InOrder
    <3>3. p \in Nat /\ j \in Nat /\ i \in Nat  BY <1>4, <1>5
    <3> QED  BY <1>4, <2>1, <3>1, <3>2, <3>3
  <2>3. WrittenOnce'  BY <1>1, <1>3, <1>6, <1>7 DEF WrittenOnce
  <2>4. RecentKept'
    <3> SUFFICES ASSUME NEW p \in DOMAIN written, p > Len(written) - Limit, there'[written[p]] = "yes"
                 PROVE  Contains(left, written[p])
      BY <1>1, <1>2 DEF RecentKept
    <3>1. written[p] \in Messages \ {m} /\ there[written[p]] = "yes"  BY <1>6, <1>7
    <3> QED  BY <1>3, <1>5, <3>1 DEF RecentKept
  <2> QED  BY <1>2, <2>1, <2>2, <2>3, <2>4 DEF MemoryInv
<1>9. Registered'
  BY <1>1, <1>3, <1>6 DEF Registered
<1>10. audit' \in Seq([by : Deleters, state : {"coming", "seen", "old"}])
  <2>0. Executor(who) \in Deleters  BY DEF Executor, Deleters
  <2>1. [by |-> Executor(who), state |-> "coming"] \in [by : Deleters, state : {"coming", "seen", "old"}]
    BY <2>0
  <2> QED  BY <1>1, <1>3, <2>1, AppendProperties DEF LogTyped
<1>11. Gone1  BY <1>4, <1>6 DEF Gone1, Deleters
<1>12. CASE ~cached /\ ~Contains(recent, m)
  <2>1. Handlers(m, cached) = <<>>  BY <1>12, HandlersAre
  <2>2. events' = events  BY <1>1, <1>4, <2>1, ConcatEmptySeq
  <2>3. m \notin Newest
    <3> SUFFICES ASSUME m \in Newest  PROVE FALSE  OBVIOUS
    <3>1. PICK p \in DOMAIN written : p > Len(written) - Limit /\ written[p] = m  BY <1>4, NewestAre
    <3> QED  BY <1>3, <1>12, <3>1 DEF RecentKept
  <2>4. owed' = owed  BY <1>1, <1>12, <2>3
  <2>5. EventsInv'  BY <1>1, <1>3, <1>11, <2>2, <2>4, Unheard, EventsGrow
  <2>6. LogTyped'  BY <1>1, <1>2, <1>3, <1>5, <1>6, <1>10, <2>2, <2>4 DEF LogTyped
  <2> QED  BY <1>8, <1>9, <2>5, <2>6 DEF LogInv
<1>13. CASE cached \/ Contains(recent, m)
  <2>1. Handlers(m, cached) = <<DeleteHandler(m)>>  BY <1>13, HandlersAre
  <2>2. PICK h \in Event : h = DeleteHandler(m)  BY <1>7
  <2>3. events' = Append(events, h)
    <3>1. events \o <<h>> = Append(events, h)  BY <1>4, AppendIsConcat
    <3> QED  BY <1>1, <2>1, <2>2, <3>1
  <2>4. /\ events' \in Seq(Event) /\ events'[Len(events) + 1] = h
        /\ \A e \in DOMAIN events : events'[e] = events[e]
        /\ DOMAIN events' = DOMAIN events \cup {Len(events) + 1}
    BY <1>4, <2>3, OneAppended
  <2>5. h.kind = "delete" /\ h.m = m /\ h.at \in {1, 2} /\ (m \in botDeleted => h.at = 2 /\ h.by = "bot")
    BY <2>2, DeleteHandlerIs
  <2>6. ASSUME NEW e \in DOMAIN events, Deletes(e)  PROVE events[e].m \in Messages \ {m}
    BY <1>3, <2>6 DEF EventsInv, DeletionOK, Deleters
  <2>7. \A e \in DOMAIN events' : DeletionOK(e)'
    <3> SUFFICES ASSUME NEW e \in DOMAIN events', Deletes(e)'  PROVE DeletionOK(e)'
      BY DEF DeletionOK
    <3>1. CASE e \in DOMAIN events
      <4>1. Deletes(e) /\ DeletionOK(e) /\ events'[e] = events[e]
        BY <1>3, <2>4, <3>1 DEF EventsInv, Deletes
      <4>2. events[e].m \in Messages /\ there'[events[e].m] = there[events[e].m]  BY <1>6, <2>6, <3>1, <4>1
      <4> QED  BY <1>1, <4>1, <4>2 DEF DeletionOK
    <3>2. CASE e = Len(events) + 1
      <4>1. events'[e] = h  BY <2>4, <3>2
      <4> QED  BY <1>6, <2>5, <4>1 DEF DeletionOK
    <3> QED  BY <2>4, <3>1, <3>2
  <2>8. \A e, f \in DOMAIN events' : Deletes(e)' /\ Deletes(f)' /\ events'[e].m = events'[f].m => e = f
    <3>1. \A e \in DOMAIN events : Deletes(e)' => Deletes(e) /\ events'[e].m \in Messages \ {m} /\ events'[e] = events[e]
      BY <2>4, <2>6 DEF Deletes
    <3>2. events'[Len(events) + 1].m = m  BY <2>4, <2>5
    <3> QED  BY <1>3, <2>4, <3>1, <3>2 DEF EventsInv
  <2>9. \A x \in owed' : \E e \in DOMAIN events' : Deletes(e)' /\ events'[e].m = x
    <3>1. PICK n \in DOMAIN events' : Deletes(n)' /\ events'[n].m = m
      <4>1. PICK n \in DOMAIN events' : events'[n] = h  BY <2>4
      <4> QED  BY <2>5, <4>1 DEF Deletes
    <3>2. ASSUME NEW x \in owed  PROVE \E e \in DOMAIN events' : Deletes(e)' /\ events'[e].m = x
      BY <1>3, <2>4 DEF EventsInv, Deletes
    <3> QED  BY <1>1, <2>4, <3>1, <3>2
  <2>10. EventsInv'  BY <2>7, <2>8, <2>9 DEF EventsInv
  <2>11. LogTyped'
    BY <1>1, <1>2, <1>3, <1>5, <1>6, <1>10, <2>4 DEF LogTyped
  <2> QED  BY <1>8, <1>9, <2>10, <2>11 DEF LogInv
<1> QED  BY <1>12, <1>13

\* A handler of the log goes on: a call of it is done, or not.
LEMMA HandlerGoesOn ==
  ASSUME LogInv, NEW e \in DOMAIN events, NEW h \in Event, Handled(e, h),
         h.kind = events[e].kind, h.m = events[e].m,
         UNCHANGED <<there, written, audit, recent, botDeleted, ai, owed>>,
         stored \subseteq stored', stored' \subseteq DOMAIN events,
         logged' \subseteq DOMAIN events, sent' \subseteq DOMAIN events,
         failed' \in 0 .. MaxFailed, failed' = 0 => failed = 0,
         Deletes(e) /\ events[e].at >= 2 => h.at >= 2 /\ h.by = events[e].by,
         Deletes(e) /\ failed' = 0 /\ h.at > 4 => e \in stored'
  PROVE  LogInv'
<1>1. LogTyped /\ EventsInv /\ events \in Seq(Event)  BY DEF LogInv, LogTyped
<1>2. /\ events' \in Seq(Event) /\ DOMAIN events' = DOMAIN events
      /\ \A f \in DOMAIN events : events'[f] = IF f = e THEN h ELSE events[f]
  <2>1. events' = [events EXCEPT ![e] = h]  BY DEF Handled
  <2> QED  BY <1>1, <2>1
<1>3. LogTyped'  BY <1>1, <1>2 DEF LogTyped
<1>4. MemoryInv'  BY MemoryKept DEF LogInv
<1>5. Registered'  BY DEF LogInv, Registered
<1>6. \A f \in DOMAIN events : /\ Deletes(f)' <=> Deletes(f)
                              /\ events'[f].m = events[f].m
  BY <1>2 DEF Deletes
<1>7. ASSUME NEW f \in DOMAIN events  PROVE DeletionOK(f)'
  <2> SUFFICES ASSUME Deletes(f)'  PROVE DeletionOK(f)'  BY DEF DeletionOK
  <2>1. Deletes(f) /\ DeletionOK(f)  BY <1>1, <1>6 DEF EventsInv
  <2>2. CASE f = e
    <3>1. events'[e] = h  BY <1>2
    <3>2. there[events[e].m] = "bot" => h.at >= 2 /\ h.by = "bot"  BY <2>1, <2>2 DEF DeletionOK
    <3>3. events[e].m \in Messages /\ there[events[e].m] \in Deleters  BY <2>1, <2>2 DEF DeletionOK
    <3> QED  BY <2>1, <2>2, <3>1, <3>2, <3>3 DEF DeletionOK
  <2>3. CASE f # e
    <3>1. events'[f] = events[f]  BY <1>2, <2>3
    <3> QED  BY <2>1, <3>1 DEF DeletionOK
  <2> QED  BY <2>2, <2>3
<1>8. EventsInv'
  <2>1. \A f, g \in DOMAIN events' : Deletes(f)' /\ Deletes(g)' /\ events'[f].m = events'[g].m => f = g
    BY <1>1, <1>2, <1>6 DEF EventsInv
  <2>2. \A m \in owed' : \E f \in DOMAIN events' : Deletes(f)' /\ events'[f].m = m
    BY <1>1, <1>2, <1>6 DEF EventsInv
  <2> QED  BY <1>2, <1>7, <2>1, <2>2 DEF EventsInv
<1> QED  BY <1>3, <1>4, <1>5, <1>8 DEF LogInv

LEMMA AuditAges ==
  ASSUME LogInv, NEW i \in DOMAIN audit, Age(i)
  PROVE  LogInv'
<1> DEFINE A == [by : Deleters, state : {"coming", "seen", "old"}]
<1>1. audit \in Seq(A) /\ failed \in 0 .. MaxFailed  BY DEF LogInv, LogTyped
<1>2. PICK state \in {"coming", "seen", "old"} : state = IF audit[i].state = "coming" THEN "seen" ELSE "old"
  OBVIOUS
<1>3. PICK entry \in A : entry = audit[i]
  <2> HIDE DEF A
  <2> QED  BY <1>1
<1>4. PICK aged \in A : aged = [entry EXCEPT !.state = state]  BY <1>3
<1>5. audit' = [audit EXCEPT ![i] = aged]
  BY <1>1, <1>2, <1>3, <1>4 DEF Age
<1>6. audit' \in Seq(A)  BY <1>1, <1>4, <1>5
<1>7. UNCHANGED <<there, written, recent, botDeleted, ai, events, tables, owed, failed>>
  BY DEF Age, log, seen
<1> QED  BY <1>1, <1>6, <1>7, Same

LEMMA Looks ==
  ASSUME LogInv, NEW e \in DOMAIN events, Look(e)
  PROVE  LogInv'
<1>1. LogTyped /\ events \in Seq(Event)  BY DEF LogInv, LogTyped
<1>2. events[e] \in Event /\ events[e].at \in 1 .. 4 /\ (Deletes(e) => events[e].at = 1)
  BY <1>1, EventSteps DEF Look, Deletes
<1>3. /\ UNCHANGED <<there, written, audit, recent, botDeleted, ai, logged, sent, stored, owed>>
      /\ failed' = failed \/ (failed < MaxFailed /\ failed' = failed + 1)
  BY DEF Look, guild, tables, CallFails
<1>4. failed \in Nat /\ failed' \in 0 .. MaxFailed /\ (failed' = 0 => failed = 0)
  BY <1>1, <1>3, GuildEventsAssumption DEF LogTyped
<1>5. ASSUME NEW who \in Deleters, Handled(e, Credit(e, who))  PROVE LogInv'
  <2>1. PICK h \in Event : /\ h = Credit(e, who) /\ h.kind = events[e].kind /\ h.m = events[e].m
                           /\ h.at = events[e].at + 1
    BY <1>1, <1>2, CreditIs
  <2>2. Deletes(e) => h.at = 2  BY <1>2, <2>1
  <2>3. logged \subseteq DOMAIN events /\ sent \subseteq DOMAIN events /\ stored \subseteq DOMAIN events
    BY <1>1 DEF LogTyped
  <2>4. Handled(e, h)  BY <1>5, <2>1
  <2>5. (Deletes(e) /\ events[e].at >= 2 => h.at >= 2 /\ h.by = events[e].by)
        /\ (Deletes(e) /\ failed' = 0 /\ h.at > 4 => e \in stored')
    BY <1>2, <2>2
  <2>6. stored' = stored /\ logged' = logged /\ sent' = sent  BY <1>3
  <2> QED  BY <1>3, <1>4, <2>1, <2>3, <2>4, <2>5, <2>6, HandlerGoesOn
<1>6. CASE Handled(e, [events[e] EXCEPT !.tries = @ + 1]) /\ events[e].tries + 1 < Attempts
  <2>1. PICK h \in Event : /\ h = [events[e] EXCEPT !.tries = @ + 1] /\ h.kind = events[e].kind
                           /\ h.m = events[e].m /\ h.at = events[e].at /\ h.by = events[e].by
    BY <1>2, <1>6, TriedIs
  <2>2. logged \subseteq DOMAIN events /\ sent \subseteq DOMAIN events /\ stored \subseteq DOMAIN events
    BY <1>1 DEF LogTyped
  <2>3. Handled(e, h)  BY <1>6, <2>1
  <2>4. (Deletes(e) /\ events[e].at >= 2 => h.at >= 2 /\ h.by = events[e].by)
        /\ (Deletes(e) /\ failed' = 0 /\ h.at > 4 => e \in stored')
    BY <1>2, <2>1
  <2>5. stored' = stored /\ logged' = logged /\ sent' = sent  BY <1>3
  <2> QED  BY <1>3, <1>4, <2>1, <2>2, <2>3, <2>4, <2>5, HandlerGoesOn
<1>7. ASSUME Visible # {}  PROVE audit[Max(Visible)].by \in Deleters
  <2> DEFINE A == [by : Deleters, state : {"coming", "seen", "old"}]
  <2>1. audit \in Seq(A)  BY <1>1 DEF LogTyped
  <2>2. Len(audit) \in Nat /\ Visible \in SUBSET (1 .. Len(audit))  BY <2>1 DEF Visible
  <2>3. Max(Visible) \in Visible  BY <1>7, <2>2, MaxIn
  <2>4. PICK i \in 1 .. Len(audit) : i = Max(Visible)  BY <2>2, <2>3
  <2>5. audit[i] \in A
    <3> HIDE DEF A
    <3> QED  BY <2>1
  <2> QED  BY <2>4, <2>5
<1>8. \/ Handled(e, Credit(e, "author"))
      \/ Visible # {} /\ Handled(e, Credit(e, audit[Max(Visible)].by))
      \/ Handled(e, [events[e] EXCEPT !.tries = @ + 1]) /\ events[e].tries + 1 < Attempts
  BY DEF Look
<1>9. "author" \in Deleters  BY DEF Deleters
<1> QED  BY <1>5, <1>6, <1>7, <1>8, <1>9

LEMMA Writes ==
  ASSUME LogInv, NEW e \in DOMAIN events, Persist(e) \/ Send(e) \/ Store(e)
  PROVE  LogInv'
<1>1. LogTyped /\ events \in Seq(Event) /\ EventsInv  BY DEF LogInv, LogTyped
<1>2. /\ events[e] \in Event /\ events[e].at \in 1 .. 4
      /\ Deletes(e) /\ (Persist(e) \/ Send(e)) => events[e].at \in {2, 3}
  BY <1>1, EventSteps DEF Persist, Send, Store, Deletes
<1>3. /\ UNCHANGED <<there, written, audit, recent, botDeleted, ai, owed>>
      /\ failed' = failed \/ (failed < MaxFailed /\ failed' = failed + 1)
  BY DEF Persist, Send, Store, guild, CallFails
<1>4. /\ failed \in Nat /\ failed' \in 0 .. MaxFailed /\ (failed' = 0 => failed = 0)
      /\ (failed' = failed + 1 => failed' # 0)
  BY <1>1, <1>3, GuildEventsAssumption DEF LogTyped
<1>5. /\ logged \subseteq DOMAIN events /\ sent \subseteq DOMAIN events /\ stored \subseteq DOMAIN events
  BY <1>1 DEF LogTyped
<1>6. /\ stored \subseteq stored' /\ stored' \subseteq DOMAIN events
      /\ logged' \subseteq DOMAIN events /\ sent' \subseteq DOMAIN events
  BY <1>5 DEF Persist, Send, Store
<1>7. PICK done \in Event : /\ done = Done(e) /\ done.kind = events[e].kind /\ done.m = events[e].m
                            /\ done.at = events[e].at + 1 /\ done.by = events[e].by
  BY <1>1, <1>2, DoneIs
<1>8. PICK off \in Event : /\ off = [events[e] EXCEPT !.at = 5] /\ off.kind = events[e].kind
                           /\ off.m = events[e].m /\ off.at = 5 /\ off.by = events[e].by
  BY <1>2, BrokenOffIs
<1>9. CASE Handled(e, done)
  <2>1. Deletes(e) /\ failed' = 0 /\ done.at > 4 => e \in stored'
    <3> SUFFICES ASSUME Deletes(e), failed' = 0, done.at > 4  PROVE e \in stored'  OBVIOUS
    <3>1. Store(e)  BY <1>2, <1>7
    <3>2. ~CallFails  BY <1>4 DEF CallFails
    <3> QED  BY <3>1, <3>2 DEF Store
  <2>2. Deletes(e) /\ events[e].at >= 2 => done.at >= 2 /\ done.by = events[e].by  BY <1>2, <1>7
  <2> QED  BY <1>3, <1>4, <1>6, <1>7, <1>9, <2>1, <2>2, HandlerGoesOn
<1>10. CASE Handled(e, off) /\ CallFails
  <2>1. failed' # 0  BY <1>4, <1>10 DEF CallFails
  <2>2. Deletes(e) /\ events[e].at >= 2 => off.at >= 2 /\ off.by = events[e].by  BY <1>8
  <2> QED  BY <1>3, <1>4, <1>6, <1>8, <1>10, <2>1, <2>2, HandlerGoesOn
<1> QED  BY <1>7, <1>8, <1>9, <1>10 DEF Persist, Send, Store

LEMMA BulkDeleted == ASSUME LogInv, Bulk PROVE LogInv'
<1>1. LogTyped /\ EventsInv /\ Registered  BY DEF LogInv
<1>2. /\ there \in [Messages -> {"no", "yes"} \cup Deleters] /\ events \in Seq(Event)
  BY <1>1 DEF LogTyped
<1>3. PICK some \in SUBSET {m \in Messages : there[m] = "yes"} :
        there' = [m \in Messages |-> IF m \in some THEN "moderator" ELSE there[m]]
  BY DEF Bulk
<1>4. UNCHANGED <<written, audit, recent, botDeleted, ai, logged, sent, stored, owed, failed>>
  BY DEF Bulk, tables, seen
<1>5. /\ \A m \in Messages : there'[m] = there[m] \/ (there[m] = "yes" /\ there'[m] = "moderator")
      /\ there' \in [Messages -> {"no", "yes"} \cup Deleters]
  BY <1>2, <1>3 DEF Deleters
<1>6. Gone1  BY <1>5 DEF Gone1, Deleters
<1>7. PICK bulk \in Event : bulk = Handler("bulk", Nobody) /\ bulk.kind = "bulk"  BY HandlerIs DEF EventKinds
<1>8. PICK purge \in Event : purge = Handler("purge", Nobody) /\ purge.kind = "purge"
  BY HandlerIs DEF EventKinds
<1>9. Grown /\ events' \in Seq(Event)
  <2>1. CASE events' = Append(events, bulk)  BY <1>2, <1>7, <2>1, OneAppended
  <2>2. CASE events' = events \o <<bulk, purge>>
    <3>1. <<bulk, purge>> \in Seq(Event) /\ Len(<<bulk, purge>>) = 2  OBVIOUS
    <3>2. /\ events' \in Seq(Event) /\ Len(events') = Len(events) + 2
          /\ \A i \in 1 .. Len(events) + 2 :
               events'[i] = IF i <= Len(events) THEN events[i] ELSE <<bulk, purge>>[i - Len(events)]
      BY <1>2, <2>2, <3>1, ConcatProperties
    <3>3. Len(events) \in Nat /\ DOMAIN events = 1 .. Len(events) /\ DOMAIN events' = 1 .. Len(events) + 2
      BY <1>2, <3>2
    <3>4. \A i \in DOMAIN events' \ DOMAIN events : i - Len(events) \in {1, 2} /\ ~(i <= Len(events))
      BY <3>3
    <3>5. \A i \in DOMAIN events' \ DOMAIN events : events'[i] \in {bulk, purge}  BY <3>2, <3>3, <3>4
    <3> QED  BY <1>7, <1>8, <3>2, <3>3, <3>5 DEF Grown
  <2> QED  BY <1>7, <1>8, <2>1, <2>2 DEF Bulk
<1>10. LogTyped'
  <2>1. DOMAIN events \subseteq DOMAIN events'  BY <1>9 DEF Grown
  <2> QED  BY <1>1, <1>4, <1>5, <1>9, <2>1 DEF LogTyped
<1>11. MemoryInv'
  <2>1. \A m \in Messages : there'[m] \in {"no", "yes"} => there'[m] = there[m]  BY <1>5
  <2> QED  BY <1>1, <1>4, <2>1, MemoryKept DEF LogInv
<1>12. EventsInv'  BY <1>1, <1>4, <1>6, <1>9, EventsGrow
<1>13. Registered'  BY <1>1, <1>4, <1>5 DEF Registered
<1> QED  BY <1>10, <1>11, <1>12, <1>13 DEF LogInv

LEMMA LogInvStep == LogInv /\ [EventsNext]_eventsVars => LogInv'
<1> SUFFICES ASSUME LogInv, [EventsNext]_eventsVars  PROVE LogInv'  OBVIOUS
<1>1. LogTyped /\ Registered /\ failed \in 0 .. MaxFailed /\ MaxFailed \in Nat
      /\ audit \in Seq([by : Deleters, state : {"coming", "seen", "old"}])
  BY GuildEventsAssumption DEF LogInv, LogTyped
<1>2. ASSUME NEW m \in Messages, Edit(m)  PROVE LogInv'
  <2>1. PICK h \in Event : h = Handler("edit", m) /\ h.kind = "edit"  BY HandlerIs DEF EventKinds
  <2> QED  BY <1>2, <2>1, Noticed DEF Edit, guild, seen
<1>3. ASSUME NEW m \in Messages, AiRegister(m)  PROVE LogInv'
  <2>1. /\ there[m] # "no" /\ ai' = [ai EXCEPT ![m] = "delete"] /\ botDeleted' = botDeleted \cup {m}
        /\ UNCHANGED <<there, written, audit, recent, events, logged, sent, stored, owed, failed>>
    BY <1>3 DEF AiRegister, register_bot_message_deletion, guild, tables, seen
  <2>2. ai \in [Messages -> {"idle", "delete", "done"}] /\ botDeleted \subseteq Messages
    BY <1>1 DEF LogTyped
  <2>3. LogTyped'  BY <1>1, <2>1, <2>2 DEF LogTyped
  <2>4. MemoryInv'  BY <2>1, MemoryKept DEF LogInv
  <2>5. EventsInv'  BY <2>1, Unheard, EventsGrow DEF LogInv, Gone1
  <2>6. Registered'  BY <1>1, <2>1, <2>2 DEF Registered
  <2> QED  BY <2>3, <2>4, <2>5, <2>6 DEF LogInv
<1>4. ASSUME NEW m \in Messages, AiDelete(m)  PROVE LogInv'
  <2>1. ai[m] = "delete" /\ ai' = [ai EXCEPT ![m] = "done"]  BY <1>4 DEF AiDelete
  <2>2. ai \in [Messages -> {"idle", "delete", "done"}]  BY <1>1 DEF LogTyped
  <2>3. /\ ai' \in [Messages -> {"idle", "delete", "done"}]
        /\ \A x \in Messages : ai'[x] = IF x = m THEN "done" ELSE ai[x]
    BY <2>1, <2>2
  <2>4. CASE there[m] = "yes" /\ Gone(m, "bot") /\ UNCHANGED failed
    <3>1. m \in botDeleted /\ "bot" \in Deleters  BY <1>1, <2>1, <2>4 DEF Registered, Deleters
    <3> QED  BY <2>3, <2>4, <3>1, Deleted
  <2>5. CASE /\ IF there[m] = "yes" THEN CallFails ELSE UNCHANGED failed
             /\ UNCHANGED <<guild, recent, botDeleted, events, tables, statistics, owed, spent>>
    <3>1. failed' \in 0 .. MaxFailed /\ (failed' = 0 => failed = 0)  BY <1>1, <2>5 DEF CallFails
    <3>2. UNCHANGED <<there, written, audit, recent, botDeleted, events, logged, sent, stored, owed>>
      BY <2>5 DEF guild, tables
    <3>3. LogTyped'  BY <1>1, <2>3, <3>1, <3>2 DEF LogTyped
    <3>4. MemoryInv'  BY <3>2, MemoryKept DEF LogInv
    <3>5. EventsInv'  BY <3>1, <3>2, Unheard, EventsGrow DEF LogInv, Gone1
    <3>6. Registered'  BY <1>1, <2>3, <3>2 DEF Registered
    <3> QED  BY <3>3, <3>4, <3>5, <3>6 DEF LogInv
  <2> QED  BY <1>4, <2>4, <2>5 DEF AiDelete
<1>5. ASSUME NEW m \in Messages, NEW who \in Deleters \ {"bot"}, Delete(m, who)  PROVE LogInv'
  <2>1. there[m] = "yes" /\ Gone(m, who) /\ ai' = ai /\ failed' = failed  BY <1>5 DEF Delete
  <2>2. ai \in [Messages -> {"idle", "delete", "done"}]  BY <1>1 DEF LogTyped
  <2> QED  BY <2>1, <2>2, Deleted
<1>11. ASSUME NEW m \in Messages, PurgeLogs(m)  PROVE LogInv'
  <2>1. PICK h \in Event : h = Handler("purge", m) /\ h.kind = "purge"  BY HandlerIs DEF EventKinds
  <2> QED  BY <1>11, <2>1, Noticed DEF PurgeLogs, guild, seen
<1>6. ASSUME NEW kind \in Changes, Change(kind)  PROVE LogInv'
  <2>1. kind \in {"channel", "role", "member"}  BY GuildEventsAssumption
  <2>2. PICK h \in Event : h = Handler(kind, Nobody) /\ h.kind = kind  BY <2>1, HandlerIs DEF EventKinds
  <2>3. h.kind # "delete"  BY <2>1, <2>2
  <2> QED  BY <1>6, <2>2, <2>3, Noticed DEF Change, guild, seen
<1>7. ASSUME NEW stays \in BOOLEAN, Voice(stays)  PROVE LogInv'
  <2>1. PICK h \in Event : h = Handler("voice", Nobody) /\ h.kind = "voice"  BY HandlerIs DEF EventKinds
  <2> QED  BY <1>7, <2>1, Noticed DEF Voice, seen
<1>8. ASSUME NEW c \in DOMAIN counting, LookFor(c) \/ Create(c) \/ Add(c) \/ Keep(c)  PROVE LogInv'
  <2>1. UNCHANGED <<there, written, audit, recent, botDeleted, ai, events, tables, owed>>
    BY <1>8 DEF LookFor, Create, Add, Keep, guild, log, seen
  <2>2. failed' = failed \/ CallFails  BY <1>8 DEF LookFor, Create, Add, Keep, seen
  <2>3. failed' \in 0 .. MaxFailed /\ (failed' = 0 => failed = 0)  BY <1>1, <2>2 DEF CallFails
  <2> QED  BY <1>1, <2>1, <2>3, Same
<1>9. ASSUME Tick \/ UNCHANGED eventsVars  PROVE LogInv'
  <2>1. UNCHANGED <<there, written, audit, recent, botDeleted, ai, events, tables, owed, failed>>
    BY <1>9 DEF Tick, eventsVars, guild, log, seen
  <2> QED  BY <1>1, <2>1, Same
<1>10. ASSUME NEW e \in DOMAIN events, Look(e) \/ Persist(e) \/ Send(e) \/ Store(e)  PROVE LogInv'
  BY <1>10, Looks, Writes
<1> QED
  BY <1>2, <1>3, <1>4, <1>5, <1>6, <1>7, <1>8, <1>9, <1>10, <1>11, Written, BulkDeleted,
     AuditAges DEF EventsNext

LEMMA LogInvAlways == EventsSpec => []LogInv
<1> QED  BY LogInvInit, LogInvStep, PTL DEF EventsSpec

\* A deleted message that disnake or the log had is logged exactly once when no handler runs and no
\* call has failed: the two listeners of logging_cog.py:78-94 share the deletions between them, and
\* what is pushed out of _recent_messages is none of the newest.
THEOREM DeletionIsLogged == EventsSpec => []DeletionLogged
<1>1. LogInv => DeletionLogged
  <2> SUFFICES ASSUME LogInv, Logging = {}, failed = 0, NEW m \in owed
               PROVE  Cardinality({e \in stored : events[e].kind = "delete" /\ events[e].m = m}) = 1
    BY DEF DeletionLogged
  <2>1. LogTyped /\ EventsInv /\ events \in Seq(Event) /\ stored \subseteq DOMAIN events
    BY DEF LogInv, LogTyped
  <2>2. PICK e \in DOMAIN events : Deletes(e) /\ events[e].m = m  BY <2>1 DEF EventsInv
  <2>3. events[e].at \in 1 .. 5  BY <2>1, EventSteps, EventFields
  <2>4. events[e].at = 5
    <3>1. \A step \in {"actor", "event", "send", "row"} : ~EventAt(e, step)  BY DEF Logging
    <3>2. events[e].at \notin {1, 2, 3, 4}  BY <2>1, <2>2, <3>1, EventSteps DEF Deletes
    <3> QED  BY <2>3, <3>2
  <2>5. e \in stored  BY <2>1, <2>2, <2>4 DEF EventsInv, DeletionOK
  <2>6. {f \in stored : events[f].kind = "delete" /\ events[f].m = m} = {e}
    BY <2>1, <2>2, <2>5 DEF EventsInv, Deletes
  <2> QED  BY <2>6, FS_Singleton
<1> QED  BY <1>1, LogInvAlways, PTL

\* A deletion of the moderation is never logged as somebody else's, whatever the audit log shows and
\* whichever calls fail: it is registered before the call, and only its own handler takes that away.
\* What /purge deletes alone is not registered, and not spoken of.
THEOREM BotDeletesAreBots == EventsSpec => []BotIsCredited
<1>1. LogInv => BotIsCredited
  BY DEF LogInv, EventsInv, DeletionOK, Deletes, BotIsCredited
<1> QED  BY <1>1, LogInvAlways, PTL

-----------------------------------------------------------------------------
(* The statistics.                                                          *)

CountRecord == [m : Messages \cup {Nobody}, minutes : 0 .. MaxTime, again : BOOLEAN, at : 1 .. 5]
StatsTyped ==
    /\ inVoice \in BOOLEAN /\ clock \in 0 .. MaxTime /\ spent \in 0 .. clock
    /\ session \in {None} \cup 0 .. clock
    /\ counting \in Seq(CountRecord)
    /\ stats \in [here : BOOLEAN, messages : Nat, minutes : Nat] /\ history \subseteq Messages

\* The messages that the member's counter has: those of the history, and those on their way to it.
Keeping == {c \in DOMAIN counting : counting[c].at = 4 /\ counting[c].m # Nobody}
Accounted == history \cup {counting[c].m : c \in Keeping}
StatsInv == StatsTyped /\ IsFiniteSet(Accounted) /\ Cardinality(Accounted) <= stats.messages

LEMMA CountFields ==
  ASSUME NEW x \in CountRecord
  PROVE  /\ x.m \in Messages \cup {Nobody} /\ x.minutes \in 0 .. MaxTime
         /\ x.again \in BOOLEAN /\ x.at \in 1 .. 5
  BY DEF CountRecord

\* Where a handler is, by the call it makes next.
LEMMA CountsAre ==
  ASSUME counting \in Seq(CountRecord), NEW c \in DOMAIN counting
  PROVE  /\ counting[c] \in CountRecord
         /\ CountAt(c, "look") <=> counting[c].at = 1
         /\ CountAt(c, "create") <=> counting[c].at = 2
         /\ CountAt(c, "add") <=> counting[c].at = 3
         /\ CountAt(c, "keep") <=> counting[c].at = 4 /\ counting[c].m # Nobody
         /\ Len(CountSteps(c)) = IF counting[c].m = Nobody THEN 3 ELSE 4
<1>1. counting[c] \in CountRecord /\ counting[c].at \in 1 .. 5
  <2>1. counting[c] \in CountRecord  OBVIOUS
  <2> QED  BY <2>1, CountFields
<1>2. CASE counting[c].m = Nobody
  <2>1. CountSteps(c) = <<"look", "create", "add">>  BY <1>2 DEF CountSteps, log_voice_activity
  <2> QED  BY <1>1, <1>2, <2>1 DEF CountAt
<1>3. CASE counting[c].m # Nobody
  <2>1. CountSteps(c) = <<"look", "create", "add", "keep">>  BY <1>3 DEF CountSteps, log_message
  <2> QED  BY <1>1, <1>3, <2>1 DEF CountAt
<1> QED  BY <1>2, <1>3

\* A handler at another call.
GoesTo(c, at) == counting' = [counting EXCEPT ![c].at = at]
LEMMA CountSet ==
  ASSUME counting \in Seq(CountRecord), NEW c \in DOMAIN counting, NEW at \in 1 .. 5, GoesTo(c, at)
  PROVE  /\ counting' \in Seq(CountRecord) /\ DOMAIN counting' = DOMAIN counting
         /\ counting'[c].at = at
         /\ \A d \in DOMAIN counting : counting'[d].m = counting[d].m
         /\ \A d \in DOMAIN counting : counting'[d].minutes = counting[d].minutes
         /\ \A d \in DOMAIN counting : d # c => counting'[d] = counting[d]
<1>1. counting[c] \in CountRecord  OBVIOUS
<1>2. PICK x \in CountRecord : x = counting[c]  BY <1>1
<1>3. PICK y : y = [x EXCEPT !.at = at]  OBVIOUS
<1>4. y \in CountRecord /\ y.m = x.m /\ y.minutes = x.minutes /\ y.at = at
  <2> DEFINE B == 0 .. MaxTime
             D == 1 .. 5
  <2>1. CountRecord = [m : Messages \cup {Nobody}, minutes : B, again : BOOLEAN, at : D] /\ at \in D
    BY DEF CountRecord
  <2> HIDE DEF B, D
  <2> QED  BY <1>3, <2>1
<1>5. counting' = [counting EXCEPT ![c] = y]  BY <1>2, <1>3 DEF GoesTo
<1>6. counting' \in Seq(CountRecord) /\ DOMAIN counting' = DOMAIN counting
      /\ \A d \in DOMAIN counting : counting'[d] = IF d = c THEN y ELSE counting[d]
  BY <1>4, <1>5
<1> QED  BY <1>2, <1>4, <1>6

LEMMA StatsInvInit == EventsInit => StatsInv
<1> SUFFICES ASSUME EventsInit  PROVE StatsInv  OBVIOUS
<1>1. StatsTyped
  <2>1. stats = [here |-> FALSE, messages |-> 0, minutes |-> 0]  BY DEF EventsInit
  <2>2. stats \in [here : BOOLEAN, messages : Nat, minutes : Nat]  BY <2>1
  <2>3. /\ inVoice = FALSE /\ clock = 0 /\ spent = 0 /\ session = None /\ history = {} /\ counting = <<>>
    BY DEF EventsInit
  <2>4. counting \in Seq(CountRecord)  BY <2>3
  <2>5. clock \in 0 .. MaxTime /\ spent \in 0 .. clock  BY <2>3, GuildEventsAssumption
  <2> QED  BY <2>2, <2>3, <2>4, <2>5 DEF StatsTyped
<1>2. Accounted = {}  BY DEF EventsInit, Accounted, Keeping
<1> QED  BY <1>1, <1>2, FS_EmptySet DEF EventsInit, StatsInv

\* What is counted already stays so when nothing new is about to be kept.
LEMMA NothingCounted ==
  ASSUME StatsInv, StatsTyped', Accounted' \subseteq Accounted, stats'.messages >= stats.messages
  PROVE  StatsInv'
<1>1. IsFiniteSet(Accounted') /\ Cardinality(Accounted') <= Cardinality(Accounted)
      /\ Cardinality(Accounted') \in Nat /\ Cardinality(Accounted) \in Nat
  BY FS_Subset, FS_CardinalityType DEF StatsInv
<1>2. stats.messages \in Nat /\ stats'.messages \in Nat  BY DEF StatsInv, StatsTyped
<1> QED  BY <1>1, <1>2 DEF StatsInv

LEMMA CountIs ==
  ASSUME NEW m \in Messages \cup {Nobody}, NEW minutes \in 0 .. MaxTime, NEW again \in BOOLEAN
  PROVE  Count(m, minutes, again) \in CountRecord /\ Count(m, minutes, again).at = 1
<1> DEFINE B == 0 .. MaxTime
<1>1. CountRecord = [m : Messages \cup {Nobody}, minutes : B, again : BOOLEAN, at : 1 .. 5] /\ minutes \in B
  BY DEF CountRecord
<1> HIDE DEF B
<1> QED  BY <1>1 DEF Count

\* A handler begins.
LEMMA CountBegins ==
  ASSUME counting \in Seq(CountRecord), NEW h \in CountRecord, h.at = 1,
         counting' = Append(counting, h), UNCHANGED history
  PROVE  counting' \in Seq(CountRecord) /\ Accounted' \subseteq Accounted
<1>1. /\ counting' \in Seq(CountRecord) /\ counting'[Len(counting) + 1] = h
      /\ DOMAIN counting' = DOMAIN counting \cup {Len(counting) + 1}
      /\ \A c \in DOMAIN counting : counting'[c] = counting[c]
  BY AppendProperties
<1>2. Keeping' = Keeping  BY <1>1 DEF Keeping
<1>3. \A c \in Keeping : counting'[c].m = counting[c].m  BY <1>1 DEF Keeping
<1>4. Accounted' \subseteq Accounted
  <2> SUFFICES ASSUME NEW x \in Accounted', x \notin history  PROVE x \in Accounted  BY DEF Accounted
  <2>1. PICK c \in Keeping' : x = counting'[c].m  BY DEF Accounted
  <2>2. c \in Keeping /\ x = counting[c].m  BY <1>2, <1>3, <2>1
  <2> QED  BY <2>2 DEF Accounted
<1> QED  BY <1>1, <1>4

\* A handler goes on: only the one that is about to keep its message adds something.
LEMMA CountMoves ==
  ASSUME counting \in Seq(CountRecord), NEW c \in DOMAIN counting, NEW at \in 1 .. 5, GoesTo(c, at)
  PROVE  /\ counting' \in Seq(CountRecord)
         /\ Accounted' \subseteq Accounted \cup history' \cup {counting[c].m}
         /\ at # 4 \/ counting[c].m = Nobody => Accounted' \subseteq Accounted \cup history'
<1>1. /\ counting' \in Seq(CountRecord) /\ DOMAIN counting' = DOMAIN counting
      /\ counting'[c].at = at
      /\ \A d \in DOMAIN counting : counting'[d].m = counting[d].m
      /\ \A d \in DOMAIN counting : d # c => counting'[d] = counting[d]
  BY CountSet
<1>2. Keeping' \subseteq Keeping \cup {c}  BY <1>1 DEF Keeping
<1>3. at # 4 \/ counting[c].m = Nobody => Keeping' \subseteq Keeping  BY <1>1 DEF Keeping
<1>4. \A d \in Keeping' : d \in DOMAIN counting /\ counting'[d].m = counting[d].m  BY <1>1 DEF Keeping
<1> QED  BY <1>1, <1>2, <1>3, <1>4 DEF Accounted

LEMMA StepsOfCounts ==
  ASSUME StatsTyped, NEW c \in DOMAIN counting
  PROVE  /\ CountEnds(c) => \E at \in {4, 5} : GoesTo(c, at) /\ (at = 4 => counting[c].m = Nobody)
         /\ CountGoes(c) /\ counting[c].at <= Len(CountSteps(c)) =>
              \E at \in 2 .. 5 : GoesTo(c, at) /\ (at = 4 => counting[c].at = 3 \/ counting[c].m = Nobody)
         /\ CountEnds(c) \/ CountGoes(c) => session' \in {None} \cup 0 .. clock
<1>1. counting \in Seq(CountRecord) /\ counting[c].at \in 1 .. 5
      /\ Len(CountSteps(c)) = IF counting[c].m = Nobody THEN 3 ELSE 4
  BY CountsAre, CountFields DEF StatsTyped
<1>2. clock \in 0 .. clock  BY DEF StatsTyped
<1>3. ASSUME CountEnds(c)  PROVE \E at \in {4, 5} : GoesTo(c, at) /\ (at = 4 => counting[c].m = Nobody)
  <2>1. PICK at \in {4, 5} : at = Len(CountSteps(c)) + 1  BY <1>1
  <2>2. GoesTo(c, at)  BY <1>3, <2>1 DEF CountEnds, GoesTo
  <2>3. at = 4 => counting[c].m = Nobody  BY <1>1, <2>1
  <2> QED  BY <2>2, <2>3
<1>4. ASSUME Counts(c, 1), counting[c].at <= Len(CountSteps(c)), counting[c].at # Len(CountSteps(c))
      PROVE  \E at \in 2 .. 5 : GoesTo(c, at) /\ (at = 4 => counting[c].at = 3 \/ counting[c].m = Nobody)
  <2>1. PICK at \in 2 .. 5 : at = counting[c].at + 1  BY <1>1, <1>4
  <2>2. GoesTo(c, at)  BY <1>4, <2>1 DEF Counts, GoesTo
  <2>3. at = 4 => counting[c].at = 3  BY <1>1, <2>1
  <2> QED  BY <2>2, <2>3
<1>5. CountEnds(c) \/ CountGoes(c) => session' \in {None} \cup 0 .. clock
  BY <1>2 DEF CountGoes, CountEnds, StatsTyped
<1>6. \A at \in {4, 5} : at \in 2 .. 5  OBVIOUS
<1> QED  BY <1>3, <1>4, <1>5, <1>6 DEF CountGoes

\* The time that passes and what is in voice.
LEMMA StatsRest ==
  ASSUME StatsInv, UNCHANGED <<stats, history>>, counting' \in Seq(CountRecord), Accounted' \subseteq Accounted,
         inVoice' \in BOOLEAN, clock' \in 0 .. MaxTime, spent' \in 0 .. clock',
         session' \in {None} \cup 0 .. clock'
  PROVE  StatsInv'
<1>1. StatsTyped'  BY DEF StatsInv, StatsTyped
<1>2. stats.messages \in Nat  BY DEF StatsInv, StatsTyped
<1> QED  BY <1>1, <1>2, NothingCounted

LEMMA CountGoesOn ==
  ASSUME StatsInv, NEW c \in DOMAIN counting, LookFor(c) \/ Create(c) \/ Add(c) \/ Keep(c)
  PROVE  StatsInv'
<1>1. StatsTyped /\ counting \in Seq(CountRecord)  BY DEF StatsInv, StatsTyped
<1>2. /\ counting[c].m \in Messages \cup {Nobody} /\ counting[c].minutes \in 0 .. MaxTime
      /\ CountAt(c, "look") <=> counting[c].at = 1
      /\ CountAt(c, "create") <=> counting[c].at = 2
      /\ CountAt(c, "add") <=> counting[c].at = 3
      /\ CountAt(c, "keep") <=> counting[c].at = 4 /\ counting[c].m # Nobody
      /\ Len(CountSteps(c)) = IF counting[c].m = Nobody THEN 3 ELSE 4
  BY <1>1, CountsAre, CountFields
<1>3. counting[c].at <= Len(CountSteps(c)) /\ counting[c].at \in 1 .. 4
  BY <1>2 DEF LookFor, Create, Add, Keep
<1>4. UNCHANGED <<inVoice, clock, spent>>  BY DEF LookFor, Create, Add, Keep, guild, seen
<1>5. session' \in {None} \cup 0 .. clock
  BY <1>1, StepsOfCounts DEF LookFor, Create, Add, Keep, StatsTyped
<1>6. stats' \in [here : BOOLEAN, messages : Nat, minutes : Nat]
  <2> DEFINE S == [here : BOOLEAN, messages : Nat, minutes : Nat]
  <2>1. stats \in S  BY <1>1 DEF StatsTyped
  <2>2. CASE UNCHANGED stats  BY <2>1, <2>2
  <2>3. CASE stats' = [stats EXCEPT !.here = TRUE]  BY <2>1, <2>3
  <2>4. CASE stats' = [stats EXCEPT !.messages = IF counting[c].m # Nobody THEN @ + 1 ELSE @,
                                    !.minutes = @ + counting[c].minutes]
    <3>1. counting[c].minutes \in Nat /\ stats.messages \in Nat /\ stats.minutes \in Nat  BY <1>2, <2>1
    <3>2. PICK a \in Nat : a = IF counting[c].m # Nobody THEN stats.messages + 1 ELSE stats.messages
      BY <3>1
    <3>3. PICK b \in Nat : b = stats.minutes + counting[c].minutes  BY <3>1
    <3>4. PICK x \in S : x = [stats EXCEPT !.messages = a]  BY <2>1
    <3>5. stats' = [x EXCEPT !.minutes = b]  BY <2>4, <3>2, <3>3, <3>4
    <3> QED  BY <3>4, <3>5
  <2> QED  BY <2>2, <2>3, <2>4 DEF LookFor, Create, Add, Keep
<1>7. CASE LookFor(c)
  <2>1. PICK at \in {2, 3} : GoesTo(c, at)
    <3>1. counting[c].at = 1  BY <1>2, <1>7 DEF LookFor
    <3>2. PICK at \in {2, 3} : at = IF stats.here THEN 1 + 2 ELSE 1 + 1  OBVIOUS
    <3>3. GoesTo(c, at)  BY <1>7, <3>1, <3>2 DEF LookFor, Counts, GoesTo
    <3> QED  BY <3>3
  <2>2. at \in 1 .. 5 /\ at # 4 /\ history' = history /\ stats' = stats /\ session' = session
    BY <1>7 DEF LookFor
  <2>3. counting' \in Seq(CountRecord) /\ Accounted' \subseteq Accounted
    BY <1>1, <2>1, <2>2, CountMoves DEF Accounted
  <2> QED  BY <1>1, <1>4, <1>5, <2>2, <2>3, StatsRest DEF StatsTyped
<1>8. CASE Create(c) \/ (Add(c) /\ CountEnds(c) /\ UNCHANGED stats)
  <2>1. PICK at \in 2 .. 5 : GoesTo(c, at) /\ (at = 4 => counting[c].m = Nobody)
    <3>1. CountEnds(c) \/ (CountGoes(c) /\ counting[c].at = 2)  BY <1>2, <1>8 DEF Create
    <3> QED  BY <1>1, <1>3, <3>1, StepsOfCounts
  <2>2. at \in 1 .. 5 /\ history' = history  BY <1>8 DEF Create, Add
  <2>3. counting' \in Seq(CountRecord) /\ Accounted' \subseteq Accounted
    BY <1>1, <2>1, <2>2, CountMoves DEF Accounted
  <2>4. StatsTyped'  BY <1>1, <1>4, <1>5, <1>6, <2>2, <2>3 DEF StatsTyped
  <2>5. stats'.messages = stats.messages /\ stats.messages \in Nat
    BY <1>1, <1>8 DEF Create, StatsTyped
  <2> QED  BY <2>3, <2>4, <2>5, NothingCounted
<1>9. CASE Add(c) /\ CountGoes(c)
           /\ stats' = [stats EXCEPT !.messages = IF counting[c].m # Nobody THEN @ + 1 ELSE @,
                                     !.minutes = @ + counting[c].minutes]
  <2>1. PICK at \in 2 .. 5 : GoesTo(c, at)  BY <1>1, <1>3, <1>9, StepsOfCounts
  <2>2. at \in 1 .. 5 /\ history' = history  BY <1>9 DEF Add
  <2>3. /\ counting' \in Seq(CountRecord)
        /\ Accounted' \subseteq Accounted \cup {counting[c].m}
        /\ counting[c].m = Nobody => Accounted' \subseteq Accounted
    BY <1>1, <2>1, <2>2, CountMoves DEF Accounted
  <2>4. StatsTyped'  BY <1>1, <1>4, <1>5, <1>6, <2>2, <2>3 DEF StatsTyped
  <2>5. /\ stats.messages \in Nat
        /\ stats'.messages = IF counting[c].m # Nobody THEN stats.messages + 1 ELSE stats.messages
    BY <1>1, <1>9 DEF StatsTyped
  <2>6. CASE counting[c].m = Nobody  BY <2>3, <2>4, <2>5, <2>6, NothingCounted
  <2>7. CASE counting[c].m # Nobody
    <3> DEFINE more == Accounted \cup {counting[c].m}
    <3>1. IsFiniteSet(Accounted) /\ Cardinality(Accounted) <= stats.messages  BY DEF StatsInv
    <3>2. /\ IsFiniteSet(more) /\ Cardinality(Accounted) \in Nat
          /\ Cardinality(more) \in {Cardinality(Accounted), Cardinality(Accounted) + 1}
      BY <3>1, FS_AddElement, FS_CardinalityType
    <3>3. Accounted' \in SUBSET more  BY <2>3
    <3> HIDE DEF more
    <3>4. IsFiniteSet(Accounted') /\ Cardinality(Accounted') <= Cardinality(more) /\ Cardinality(Accounted') \in Nat
      BY <3>2, <3>3, FS_Subset, FS_CardinalityType
    <3>5. Cardinality(Accounted') <= stats'.messages  BY <2>5, <2>7, <3>1, <3>2, <3>4
    <3> QED  BY <2>4, <3>4, <3>5 DEF StatsInv
  <2> QED  BY <2>6, <2>7
<1>10. CASE Keep(c)
  <2>1. counting[c].at = 4 /\ counting[c].m # Nobody /\ counting[c].m \in Messages  BY <1>2, <1>10 DEF Keep
  <2>2. c \in Keeping /\ counting[c].m \in Accounted  BY <2>1 DEF Keeping, Accounted
  <2>3. history' \subseteq history \cup {counting[c].m} /\ stats' = stats  BY <1>10 DEF Keep
  <2>4. PICK at \in 2 .. 5 : GoesTo(c, at) /\ at # 4
    <3>1. PICK at \in 2 .. 5 : GoesTo(c, at) /\ (at = 4 => counting[c].at = 3 \/ counting[c].m = Nobody)
      BY <1>1, <1>3, <1>10, StepsOfCounts DEF Keep
    <3> QED  BY <2>1, <3>1
  <2>5. at \in 1 .. 5  OBVIOUS
  <2>6. counting' \in Seq(CountRecord) /\ Accounted' \subseteq Accounted
    BY <1>1, <2>2, <2>3, <2>4, <2>5, CountMoves DEF Accounted
  <2>7. history' \subseteq Messages  BY <1>1, <2>1, <2>3 DEF StatsTyped
  <2>8. StatsTyped'  BY <1>1, <1>4, <1>5, <1>6, <2>6, <2>7 DEF StatsTyped
  <2>9. stats.messages \in Nat  BY <1>1 DEF StatsTyped
  <2> QED  BY <2>3, <2>6, <2>8, <2>9, NothingCounted
<1> QED  BY <1>7, <1>8, <1>9, <1>10 DEF Add

LEMMA VoiceCounted == ASSUME StatsInv, NEW stays \in BOOLEAN, Voice(stays) PROVE StatsInv'
<1>1. /\ StatsTyped /\ counting \in Seq(CountRecord) /\ MaxTime \in Nat
      /\ clock \in 0 .. MaxTime /\ session \in {None} \cup 0 .. clock
  BY GuildEventsAssumption DEF StatsInv, StatsTyped
<1>2. PICK counted : /\ counted = IF inVoice THEN Minutes ELSE 0
                     /\ session' = IF stays /\ counted = 0 THEN clock ELSE Popped
                     /\ counting' = IF counted = 0 THEN counting
                                    ELSE Append(counting, Count(Nobody, counted, stays))
  BY DEF Voice
<1>3. counted \in 0 .. MaxTime  BY <1>1, <1>2 DEF Minutes
<1>4. UNCHANGED <<stats, history, clock, spent>> /\ inVoice' = stays  BY DEF Voice, seen
<1>5. counting' \in Seq(CountRecord) /\ Accounted' \subseteq Accounted
  <2>1. CASE counted = 0
    <3>1. counting' = counting  BY <1>2, <2>1
    <3> QED  BY <1>1, <1>4, <3>1 DEF Accounted, Keeping
  <2>2. CASE counted # 0
    <3>1. PICK h \in CountRecord : h = Count(Nobody, counted, stays) /\ h.at = 1  BY <1>3, CountIs
    <3> QED  BY <1>1, <1>2, <1>4, <2>2, <3>1, CountBegins
  <2> QED  BY <2>1, <2>2
<1>6. session' \in {None} \cup 0 .. clock'  BY <1>1, <1>2, <1>4 DEF Popped
<1>7. clock' \in 0 .. MaxTime /\ spent' \in 0 .. clock' /\ inVoice' \in BOOLEAN
  BY <1>1, <1>4 DEF StatsTyped
<1> QED  BY <1>4, <1>5, <1>6, <1>7, StatsRest

LEMMA StatsInvStep == StatsInv /\ [EventsNext]_eventsVars => StatsInv'
<1> SUFFICES ASSUME StatsInv, [EventsNext]_eventsVars  PROVE StatsInv'  OBVIOUS
<1>1. /\ StatsTyped /\ counting \in Seq(CountRecord) /\ MaxTime \in Nat /\ inVoice \in BOOLEAN
      /\ clock \in 0 .. MaxTime /\ session \in {None} \cup 0 .. clock /\ spent \in 0 .. clock
  BY GuildEventsAssumption DEF StatsInv, StatsTyped
<1>2. ASSUME NEW m \in Messages, Write(m)  PROVE StatsInv'
  <2>1. m \in Messages \cup {Nobody} /\ 0 \in 0 .. MaxTime /\ FALSE \in BOOLEAN  BY <1>1
  <2>2. Count(m, 0, FALSE) \in CountRecord /\ Count(m, 0, FALSE).at = 1  BY <2>1, CountIs
  <2>3. PICK h \in CountRecord : h = Count(m, 0, FALSE) /\ h.at = 1  BY <2>2
  <2>4. counting' = Append(counting, h) /\ UNCHANGED <<stats, history, session, inVoice, clock, spent>>
    BY <1>2, <2>3 DEF Write, seen
  <2>5. counting' \in Seq(CountRecord) /\ Accounted' \subseteq Accounted  BY <1>1, <2>3, <2>4, CountBegins
  <2> QED  BY <1>1, <2>4, <2>5, StatsRest
<1>3. ASSUME Tick  PROVE StatsInv'
  <2>1. /\ clock < MaxTime /\ clock' = clock + 1 /\ spent' \in {spent, spent + 1}
        /\ UNCHANGED <<stats, history, session, inVoice, counting>>
    BY <1>3 DEF Tick, statistics
  <2>2. /\ clock' \in 0 .. MaxTime /\ spent' \in 0 .. clock' /\ session' \in {None} \cup 0 .. clock'
    BY <1>1, <2>1
  <2>3. Accounted' \subseteq Accounted  BY <2>1 DEF Accounted, Keeping
  <2> QED  BY <1>1, <2>1, <2>2, <2>3, StatsRest
<1>4. ASSUME UNCHANGED <<inVoice, clock, spent, statistics>>  PROVE StatsInv'
  <2>1. UNCHANGED <<stats, history, session, counting>>  BY <1>4 DEF statistics
  <2>2. Accounted' \subseteq Accounted  BY <2>1 DEF Accounted, Keeping
  <2> QED  BY <1>1, <1>4, <2>1, <2>2, StatsRest
<1>5. ASSUME NEW m \in Messages, Edit(m) \/ AiRegister(m) \/ AiDelete(m) \/ PurgeLogs(m)  PROVE StatsInv'
  <2>1. UNCHANGED <<inVoice, clock, spent, statistics>>
    BY <1>5 DEF Edit, AiRegister, AiDelete, PurgeLogs, Gone, guild, seen
  <2> QED  BY <1>4, <2>1
<1>6. ASSUME NEW m \in Messages, NEW who \in Deleters, Delete(m, who)  PROVE StatsInv'
  BY <1>4, <1>6 DEF Delete, Gone
<1>7. ASSUME Bulk  PROVE StatsInv'
  BY <1>4, <1>7 DEF Bulk, seen
<1>8. ASSUME NEW kind \in Changes, Change(kind)  PROVE StatsInv'
  BY <1>4, <1>8 DEF Change, guild, seen
<1>9. ASSUME NEW e \in DOMAIN events, Look(e) \/ Persist(e) \/ Send(e) \/ Store(e)  PROVE StatsInv'
  BY <1>4, <1>9 DEF Look, Persist, Send, Store, guild
<1>10. ASSUME NEW i \in DOMAIN audit, Age(i)  PROVE StatsInv'
  BY <1>4, <1>10 DEF Age, seen
<1>11. ASSUME UNCHANGED eventsVars  PROVE StatsInv'
  BY <1>4, <1>11 DEF eventsVars, guild, seen
<1> QED
  BY <1>2, <1>3, <1>5, <1>6, <1>7, <1>8, <1>9, <1>10, <1>11, VoiceCounted, CountGoesOn DEF EventsNext

LEMMA StatsInvAlways == EventsSpec => []StatsInv
<1> QED  BY StatsInvInit, StatsInvStep, PTL DEF EventsSpec

\* The log and the statistics keep their types, for any number of messages, minutes and failing calls.
THEOREM EventsTypeCorrect == EventsSpec => []EventsTypeOK
<1>1. LogInv /\ StatsInv => EventsTypeOK
  <2> SUFFICES ASSUME LogInv, StatsInv  PROVE EventsTypeOK  OBVIOUS
  <2>1. LogTyped /\ StatsTyped /\ MaxTime \in Nat  BY GuildEventsAssumption DEF LogInv, StatsInv
  <2>2. /\ clock \in 0 .. MaxTime /\ spent \in 0 .. MaxTime /\ session \in {None} \cup 0 .. MaxTime
    BY <2>1 DEF StatsTyped
  <2>3. \A i \in DOMAIN audit : audit[i] \in [by : Deleters, state : {"coming", "seen", "old"}]
    <3> DEFINE A == [by : Deleters, state : {"coming", "seen", "old"}]
    <3>1. audit \in Seq(A)  BY <2>1 DEF LogTyped
    <3> HIDE DEF A
    <3>2. \A i \in DOMAIN audit : audit[i] \in A  BY <3>1
    <3> QED  BY <3>2 DEF A
  <2>4. \A c \in DOMAIN counting :
          counting[c] \in [m : Messages \cup {Nobody}, minutes : 0 .. MaxTime, again : BOOLEAN, at : 1 .. 5]
    <3>1. \A c \in DOMAIN counting : counting[c] \in CountRecord  BY <2>1 DEF StatsTyped
    <3> QED  BY <3>1 DEF CountRecord
  <2> QED  BY <2>1, <2>2, <2>3, <2>4 DEF LogTyped, StatsTyped, EventsTypeOK
<1> QED  BY <1>1, LogInvAlways, StatsInvAlways, PTL

\* The history never has more messages than the member's counter, in whatever order the two tables are
\* written and whichever of the writes fail (stats_service.py:31-38).
THEOREM HistoryInCounter == EventsSpec => []HistoryIsCounted
<1>1. StatsInv => HistoryIsCounted
  <2> SUFFICES ASSUME StatsInv  PROVE Cardinality(history) <= stats.messages  BY DEF HistoryIsCounted
  <2>1. /\ IsFiniteSet(Accounted) /\ Cardinality(Accounted) <= stats.messages /\ stats.messages \in Nat
    BY DEF StatsInv, StatsTyped
  <2>2. history \in SUBSET Accounted  BY DEF Accounted
  <2>3. Cardinality(history) <= Cardinality(Accounted) /\ Cardinality(history) \in Nat /\ Cardinality(Accounted) \in Nat
    BY <2>1, <2>2, FS_Subset, FS_CardinalityType
  <2> QED  BY <2>1, <2>3
<1> QED  BY <1>1, StatsInvAlways, PTL

\* The minutes since the member's session began, which nothing has counted.  A session that a late
\* handler has left behind after he went is not one of his.
InSession == IF inVoice /\ session # None THEN clock - session ELSE 0

\* Every minute in voice is in one place at most: in the table, with a handler, or in the session.
VoiceInv == StatsInv /\ stats.minutes + Cardinality(Unwritten) + InSession <= spent

\* Pairs, one by one, and how many there are.
LEMMA PairsAre ==
  ASSUME NEW S, NEW T, NEW f, NEW x
  PROVE  x \in {y \in S \X T : y[2] <= f[y[1]].minutes}
           <=> \E a \in S, b \in T : x = <<a, b>> /\ b <= f[a].minutes
  OBVIOUS

LEMMA PairIs ==
  ASSUME NEW S, NEW T, NEW f, NEW a \in S, NEW b \in T
  PROVE  <<a, b>> \in {y \in S \X T : y[2] <= f[y[1]].minutes} <=> b <= f[a].minutes
  OBVIOUS

LEMMA PairsCounted ==
  ASSUME NEW c, NEW k \in Nat
  PROVE  IsFiniteSet({c} \X (1 .. k)) /\ Cardinality({c} \X (1 .. k)) = k
<1> DEFINE S == {c}
           T == 1 .. k
<1>1. IsFiniteSet(S) /\ Cardinality(S) = 1  BY FS_Singleton
<1>2. IsFiniteSet(T) /\ Cardinality(T) = k  BY FS_Interval
<1> HIDE DEF S, T
<1>3. IsFiniteSet(S \X T) /\ Cardinality(S \X T) = Cardinality(S) * Cardinality(T)  BY <1>1, <1>2, FS_Product
<1>4. IsFiniteSet(S \X T) /\ Cardinality(S \X T) = k  BY <1>1, <1>2, <1>3
<1> QED  BY <1>4 DEF S, T

\* What is under way: the minutes of the handlers that have not come past "add", and finitely many.
UnwrittenTold ==
  /\ \A c \in DOMAIN counting, k \in 1 .. MaxTime :
       <<c, k>> \in Unwritten <=> counting[c].at <= 3 /\ k <= counting[c].minutes
  /\ \A x \in Unwritten : \E c \in DOMAIN counting, k \in 1 .. MaxTime : x = <<c, k>>
  /\ IsFiniteSet(Unwritten) /\ Cardinality(Unwritten) \in Nat

LEMMA UnwrittenIs == StatsTyped => UnwrittenTold
<1> SUFFICES ASSUME StatsTyped  PROVE UnwrittenTold  OBVIOUS
<1> DEFINE Calls1 == DOMAIN counting
           Open == {c \in DOMAIN counting : CountAt(c, "look") \/ CountAt(c, "create") \/ CountAt(c, "add")}
           Time == 1 .. MaxTime
<1>1. counting \in Seq(CountRecord) /\ MaxTime \in Nat  BY GuildEventsAssumption DEF StatsTyped
<1>2. \A c \in Calls1 : c \in Open <=> counting[c].at <= 3
  <2> SUFFICES ASSUME NEW c \in DOMAIN counting
               PROVE  CountAt(c, "look") \/ CountAt(c, "create") \/ CountAt(c, "add") <=> counting[c].at <= 3
    OBVIOUS
  <2>1. counting[c] \in CountRecord  BY <1>1, CountsAre
  <2>2. counting[c].at \in 1 .. 5  BY <2>1, CountFields
  <2> QED  BY <1>1, <2>2, CountsAre
<1>3. IsFiniteSet(Open) /\ IsFiniteSet(Time) /\ Open \subseteq Calls1
  <2>1. DOMAIN counting = 1 .. Len(counting) /\ Len(counting) \in Nat  BY <1>1
  <2>2. IsFiniteSet(DOMAIN counting)  BY <2>1, FS_Interval
  <2>3. Open \in SUBSET DOMAIN counting  OBVIOUS
  <2>4. IsFiniteSet(Open)  BY <2>2, <2>3, FS_Subset
  <2>5. IsFiniteSet(Time)  BY <1>1, FS_Interval
  <2> QED  BY <2>3, <2>4, <2>5
<1>4. Unwritten = {y \in Open \X Time : y[2] <= counting[y[1]].minutes}  BY DEF Unwritten
<1> HIDE DEF Open, Time, Calls1
<1>5. IsFiniteSet(Open \X Time)  BY <1>3, FS_Product
<1>6. Unwritten \in SUBSET (Open \X Time)  BY <1>4
<1>7. IsFiniteSet(Unwritten)  BY <1>5, <1>6, FS_Subset
<1>8. \A x \in Unwritten : \E c \in Open, k \in Time : x = <<c, k>> /\ k <= counting[c].minutes
  BY <1>4, PairsAre
<1>9. \A c \in Calls1, k \in Time : <<c, k>> \in Unwritten <=> counting[c].at <= 3 /\ k <= counting[c].minutes
  <2> SUFFICES ASSUME NEW c \in Calls1, NEW k \in Time
               PROVE  <<c, k>> \in Unwritten <=> c \in Open /\ k <= counting[c].minutes
    BY <1>2
  <2>1. CASE c \in Open  BY <1>4, <2>1, PairIs
  <2>2. CASE c \notin Open
    <3>1. <<c, k>> \notin Unwritten
      <4> SUFFICES ASSUME <<c, k>> \in Unwritten  PROVE FALSE  OBVIOUS
      <4>1. PICK d \in Open, l \in Time : <<c, k>> = <<d, l>>  BY <1>8
      <4> QED  BY <2>2, <4>1
    <3> QED  BY <2>2, <3>1
  <2> QED  BY <2>1, <2>2
<1>10. \A x \in Unwritten : \E c \in Calls1, k \in Time : x = <<c, k>>  BY <1>3, <1>8
<1>11. Cardinality(Unwritten) \in Nat  BY <1>7, FS_CardinalityType
<1> QED  BY <1>7, <1>9, <1>10, <1>11 DEF Calls1, Time, UnwrittenTold

\* The same of the state after a step.
LEMMA UnwrittenWillBe == StatsTyped' => UnwrittenTold'
<1> QED  BY UnwrittenIs, PTL

\* What is under way is told by the handlers.
LEMMA UnwrittenStays == ASSUME StatsTyped, StatsTyped', counting' = counting  PROVE Unwritten' = Unwritten
<1>1. \A c : \A step : CountAt(c, step)' = CountAt(c, step)  BY DEF CountAt, CountSteps
<1> QED  BY <1>1 DEF Unwritten

\* Nothing new is under way, nothing is added, and the session gains only minutes that have passed.
LEMMA NothingSpent ==
  ASSUME VoiceInv, StatsInv', Unwritten' \subseteq Unwritten, stats'.minutes = stats.minutes,
         InSession' + spent <= InSession + spent', InSession \in Int, InSession' \in Int
  PROVE  VoiceInv'
<1>1. StatsTyped /\ StatsTyped'  BY DEF VoiceInv, StatsInv
<1>2. IsFiniteSet(Unwritten) /\ Cardinality(Unwritten) \in Nat  BY <1>1, UnwrittenIs DEF UnwrittenTold
<1>3. Unwritten' \in SUBSET Unwritten  OBVIOUS
<1>4. IsFiniteSet(Unwritten') /\ Cardinality(Unwritten') <= Cardinality(Unwritten)  BY <1>2, <1>3, FS_Subset
<1>5. Cardinality(Unwritten') \in Nat  BY <1>4, FS_CardinalityType
<1>6. stats.minutes \in Nat /\ spent \in Nat /\ spent' \in Nat  BY <1>1 DEF StatsTyped
<1>7. stats.minutes + Cardinality(Unwritten) + InSession <= spent  BY DEF VoiceInv
<1>8. PICK a \in Nat, b \in Nat : a = Cardinality(Unwritten) /\ b = Cardinality(Unwritten')  BY <1>2, <1>5
<1>9. PICK s \in Int, t \in Int : s = InSession /\ t = InSession'  OBVIOUS
<1>10. PICK m \in Nat, p \in Nat, q \in Nat : m = stats.minutes /\ p = spent /\ q = spent'  BY <1>6
<1>11. m + a + s <= p /\ b <= a /\ t + p <= s + q  BY <1>4, <1>7, <1>8, <1>9, <1>10
<1>12. m + b + t <= q  BY <1>11
<1>13. stats'.minutes + Cardinality(Unwritten') + InSession' <= spent'  BY <1>8, <1>9, <1>10, <1>12
<1> QED  BY <1>13 DEF VoiceInv

\* The session is a number of minutes of the clock.
LEMMA InSessionIs == StatsTyped => InSession \in Nat
  BY DEF StatsTyped, InSession

LEMMA InSessionWillBe == StatsTyped' => InSession' \in Nat
  BY DEF StatsTyped, InSession

\* A handler begins: the minutes it has to add are under way.
LEMMA MinutesBegin ==
  ASSUME StatsTyped, StatsTyped', NEW h \in CountRecord, counting' = Append(counting, h)
  PROVE  Cardinality(Unwritten') <= Cardinality(Unwritten) + h.minutes
<1>1. PICK n \in Nat : n = h.minutes
  <2>1. h.minutes \in 0 .. MaxTime  BY CountFields
  <2> QED  BY <2>1
<1>2. PICK new : new = Len(counting) + 1  OBVIOUS
<1> DEFINE T == {new} \X (1 .. n)
<1>3. /\ counting'[new] = h /\ DOMAIN counting' = DOMAIN counting \cup {new}
      /\ \A c \in DOMAIN counting : counting'[c] = counting[c]
  <2>1. counting \in Seq(CountRecord)  BY DEF StatsTyped
  <2> QED  BY <1>2, <2>1, AppendProperties
<1>4. IsFiniteSet(Unwritten) /\ Cardinality(Unwritten) \in Nat
      /\ IsFiniteSet(Unwritten') /\ Cardinality(Unwritten') \in Nat
  BY UnwrittenIs, UnwrittenWillBe DEF UnwrittenTold
<1>5. ASSUME NEW x \in Unwritten'  PROVE x \in Unwritten \cup T
  <2>1. PICK c \in DOMAIN counting', k \in 1 .. MaxTime : x = <<c, k>>  BY UnwrittenWillBe DEF UnwrittenTold
  <2>2. counting'[c].at <= 3 /\ k <= counting'[c].minutes  BY <1>5, <2>1, UnwrittenWillBe DEF UnwrittenTold
  <2>3. CASE c \in DOMAIN counting
    <3>1. counting[c].at <= 3 /\ k <= counting[c].minutes  BY <1>3, <2>2, <2>3
    <3>2. <<c, k>> \in Unwritten  BY <2>1, <2>3, <3>1, UnwrittenIs DEF UnwrittenTold
    <3> QED  BY <2>1, <3>2
  <2>4. CASE c = new
    <3>1. k \in 1 .. n  BY <1>1, <1>3, <2>2, <2>4
    <3> QED  BY <2>1, <2>4, <3>1
  <2> QED  BY <1>3, <2>3, <2>4
<1>6. IsFiniteSet(T) /\ Cardinality(T) = n  BY PairsCounted
<1> HIDE DEF T
<1>7. /\ IsFiniteSet(Unwritten \cup T) /\ IsFiniteSet(Unwritten \cap T)
      /\ Cardinality(Unwritten \cup T) = Cardinality(Unwritten) + Cardinality(T) - Cardinality(Unwritten \cap T)
  BY <1>4, <1>6, FS_Union, FS_Intersection
<1>8. Cardinality(Unwritten \cap T) \in Nat  BY <1>7, FS_CardinalityType
<1>9. Unwritten' \in SUBSET (Unwritten \cup T)  BY <1>5
<1>10. Cardinality(Unwritten') <= Cardinality(Unwritten \cup T)  BY <1>7, <1>9, FS_Subset
<1> QED  BY <1>1, <1>4, <1>6, <1>7, <1>8, <1>10

\* A handler goes on: its minutes stay under way, or are no longer once it has come past "add".
LEMMA MinutesGoOn ==
  ASSUME StatsTyped, StatsTyped', NEW c \in DOMAIN counting, NEW at \in 1 .. 5, GoesTo(c, at),
         counting[c].at <= at
  PROVE  /\ Unwritten' \subseteq Unwritten
         /\ counting[c].at = 3 /\ at > 3 =>
              Cardinality(Unwritten') <= Cardinality(Unwritten) - counting[c].minutes
<1>1. counting \in Seq(CountRecord) /\ MaxTime \in Nat  BY GuildEventsAssumption DEF StatsTyped
<1>2. /\ counting[c].at \in 1 .. 5
      /\ counting[c].minutes \in 0 .. MaxTime
  BY <1>1, CountsAre, CountFields
<1>3. /\ DOMAIN counting' = DOMAIN counting /\ counting'[c].at = at
      /\ \A d \in DOMAIN counting : counting'[d].minutes = counting[d].minutes
      /\ \A d \in DOMAIN counting : d # c => counting'[d] = counting[d]
  BY <1>1, CountSet
<1>4. PICK n \in Nat : n = counting[c].minutes  BY <1>1, <1>2
<1> DEFINE T == {c} \X (1 .. n)
<1>5. IsFiniteSet(Unwritten) /\ Cardinality(Unwritten) \in Nat  BY UnwrittenIs DEF UnwrittenTold
<1>6. ASSUME NEW x \in Unwritten'  PROVE x \in Unwritten /\ (at > 3 => x \notin T)
  <2>1. PICK d \in DOMAIN counting, k \in 1 .. MaxTime : x = <<d, k>>  BY <1>3, <1>6, UnwrittenWillBe DEF UnwrittenTold
  <2>2. counting'[d].at <= 3 /\ k <= counting'[d].minutes  BY <1>3, <1>6, <2>1, UnwrittenWillBe DEF UnwrittenTold
  <2>3. counting[d].at <= 3 /\ (at > 3 => d # c)  BY <1>2, <1>3, <2>2
  <2>4. k <= counting[d].minutes  BY <1>3, <2>2
  <2>5. <<d, k>> \in Unwritten  BY <2>1, <2>3, <2>4, UnwrittenIs DEF UnwrittenTold
  <2> QED  BY <2>1, <2>3, <2>5
<1>7. ASSUME counting[c].at = 3, at > 3
      PROVE  Cardinality(Unwritten') <= Cardinality(Unwritten) - n
  <2>1. ASSUME NEW x \in T  PROVE x \in Unwritten
    <3>1. PICK k \in 1 .. n : x = <<c, k>>  BY <2>1
    <3>2. k \in 1 .. MaxTime /\ k <= counting[c].minutes  BY <1>1, <1>2, <1>4
    <3>3. <<c, k>> \in Unwritten  BY <1>7, <3>2, UnwrittenIs DEF UnwrittenTold
    <3> QED  BY <3>1, <3>3
  <2>2. IsFiniteSet(T) /\ Cardinality(T) = n  BY PairsCounted
  <2>3. Unwritten' \subseteq Unwritten \ T  BY <1>6, <1>7
  <2> HIDE DEF T
  <2>4. Unwritten \cap T = T  BY <2>1
  <2>5. IsFiniteSet(Unwritten \ T) /\ Cardinality(Unwritten \ T) = Cardinality(Unwritten) - Cardinality(T)
    BY <1>5, <2>4, FS_Difference
  <2>6. Unwritten' \in SUBSET (Unwritten \ T)  BY <2>3
  <2>7. Cardinality(Unwritten') <= Cardinality(Unwritten \ T)  BY <2>5, <2>6, FS_Subset
  <2> QED  BY <2>2, <2>5, <2>7
<1> QED  BY <1>4, <1>6, <1>7

LEMMA VoiceInvInit == EventsInit => VoiceInv
<1> SUFFICES ASSUME EventsInit  PROVE VoiceInv  OBVIOUS
<1>1. StatsInv /\ StatsTyped  BY StatsInvInit DEF StatsInv
<1>2. counting = <<>> /\ inVoice = FALSE /\ spent = 0 /\ stats.minutes = 0  BY DEF EventsInit
<1>3. Unwritten = {}  BY <1>1, <1>2, UnwrittenIs DEF UnwrittenTold
<1>4. Cardinality(Unwritten) = 0 /\ InSession = 0  BY <1>2, <1>3, FS_EmptySet DEF InSession
<1> QED  BY <1>1, <1>2, <1>4 DEF VoiceInv

\* The member joins, moves or leaves: what his session has gathered goes to a handler.
LEMMA VoiceMoves == ASSUME VoiceInv, StatsInv', NEW stays \in BOOLEAN, Voice(stays) PROVE VoiceInv'
<1>1. /\ StatsTyped /\ StatsTyped' /\ counting \in Seq(CountRecord)
      /\ clock \in 0 .. MaxTime /\ session \in {None} \cup 0 .. clock /\ MaxTime \in Nat
  BY GuildEventsAssumption DEF VoiceInv, StatsInv, StatsTyped
<1>2. PICK counted : /\ counted = IF inVoice THEN Minutes ELSE 0
                     /\ session' = IF stays /\ counted = 0 THEN clock ELSE Popped
                     /\ counting' = IF counted = 0 THEN counting
                                    ELSE Append(counting, Count(Nobody, counted, stays))
  BY DEF Voice
<1>3. counted = InSession /\ counted \in 0 .. MaxTime  BY <1>1, <1>2 DEF Minutes, InSession
<1>4. UNCHANGED <<stats, clock, spent>>  BY DEF Voice, seen
<1>5. InSession' = 0  BY <1>1, <1>2, <1>4 DEF InSession, Popped
<1>6. CASE counted = 0
  <2>1. counting' = counting  BY <1>2, <1>6
  <2>2. Unwritten' = Unwritten  BY <1>1, <2>1, UnwrittenStays
  <2>3. InSession \in Int /\ InSession' \in Int /\ InSession' + spent <= InSession + spent'
    BY <1>1, <1>3, <1>4, <1>5, <1>6 DEF StatsTyped
  <2> QED  BY <1>4, <2>2, <2>3, NothingSpent
<1>7. CASE counted # 0
  <2>1. PICK h \in CountRecord : h = Count(Nobody, counted, stays)  BY <1>3, CountIs
  <2>2. h.minutes = counted  BY <2>1 DEF Count
  <2>3. counting' = Append(counting, h)  BY <1>2, <1>7, <2>1
  <2>4. Cardinality(Unwritten') <= Cardinality(Unwritten) + counted  BY <1>1, <2>2, <2>3, MinutesBegin
  <2>5. Cardinality(Unwritten) \in Nat /\ Cardinality(Unwritten') \in Nat  BY <1>1, UnwrittenIs, UnwrittenWillBe DEF UnwrittenTold
  <2>6. stats.minutes \in Nat /\ spent \in Nat  BY <1>1 DEF StatsTyped
  <2>7. PICK a \in Nat, b \in Nat : a = Cardinality(Unwritten) /\ b = Cardinality(Unwritten')  BY <2>5
  <2>8. PICK m \in Nat, k \in Nat, p \in Nat : m = stats.minutes /\ k = counted /\ p = spent
    BY <1>1, <1>3, <2>6
  <2>9. stats.minutes + Cardinality(Unwritten) + InSession <= spent  BY DEF VoiceInv
  <2>10. m + a + k <= p  BY <1>3, <2>7, <2>8, <2>9
  <2>11. b <= a + k  BY <2>4, <2>7, <2>8
  <2>12. m + b + 0 <= p  BY <2>10, <2>11
  <2>13. stats'.minutes + Cardinality(Unwritten') + InSession' <= spent'
    BY <1>4, <1>5, <2>7, <2>8, <2>12, Zenon
  <2> QED  BY <2>13 DEF VoiceInv
<1> QED  BY <1>6, <1>7

\* A handler that goes on or ends comes to a later call, and begins a session at this minute if any.
LEMMA CountsForward ==
  ASSUME StatsTyped, NEW c \in DOMAIN counting, counting[c].at <= Len(CountSteps(c)),
         CountEnds(c) \/ CountGoes(c)
  PROVE  /\ \E at \in 1 .. 5 : GoesTo(c, at) /\ at > counting[c].at
         /\ session' \in {session, clock}
<1>1. /\ counting[c].at \in 1 .. 5
      /\ Len(CountSteps(c)) = IF counting[c].m = Nobody THEN 3 ELSE 4
  BY CountsAre, CountFields DEF StatsTyped
<1>2. CASE CountEnds(c)
  <2>1. PICK at \in 1 .. 5 : at = Len(CountSteps(c)) + 1 /\ at > counting[c].at  BY <1>1
  <2>2. GoesTo(c, at)  BY <1>2, <2>1 DEF CountEnds, GoesTo
  <2> QED  BY <1>2, <2>1, <2>2 DEF CountEnds
<1>3. CASE Counts(c, 1) /\ session' = session
  <2>1. PICK at \in 1 .. 5 : at = counting[c].at + 1  BY <1>1
  <2>2. GoesTo(c, at) /\ at > counting[c].at  BY <1>1, <1>3, <2>1 DEF Counts, GoesTo
  <2> QED  BY <1>3, <2>2
<1> QED  BY <1>2, <1>3 DEF CountGoes

\* A handler of the statistics goes on: only the one that adds its minutes takes them off the way.
LEMMA MinutesWritten ==
  ASSUME VoiceInv, StatsInv', NEW c \in DOMAIN counting, LookFor(c) \/ Create(c) \/ Add(c) \/ Keep(c)
  PROVE  VoiceInv'
<1>1. /\ StatsTyped /\ StatsTyped' /\ counting \in Seq(CountRecord) /\ stats.minutes \in Nat /\ spent \in Nat
      /\ clock \in Nat /\ session \in {None} \cup 0 .. clock
  BY GuildEventsAssumption DEF VoiceInv, StatsInv, StatsTyped
<1>2. /\ counting[c].at \in 1 .. 5 /\ counting[c].minutes \in 0 .. MaxTime
      /\ CountAt(c, "look") <=> counting[c].at = 1
      /\ CountAt(c, "create") <=> counting[c].at = 2
      /\ CountAt(c, "add") <=> counting[c].at = 3
      /\ CountAt(c, "keep") <=> counting[c].at = 4 /\ counting[c].m # Nobody
      /\ Len(CountSteps(c)) = IF counting[c].m = Nobody THEN 3 ELSE 4
  BY <1>1, CountsAre, CountFields
<1>3. counting[c].at <= Len(CountSteps(c)) /\ counting[c].at \in 1 .. 4
  BY <1>2 DEF LookFor, Create, Add, Keep
<1>4. UNCHANGED <<inVoice, clock, spent>>  BY DEF LookFor, Create, Add, Keep, guild, seen
<1>5. (\E at \in 1 .. 5 : GoesTo(c, at) /\ at > counting[c].at) /\ session' \in {session, clock}
  <2>1. CASE LookFor(c)
    <3>1. counting[c].at = 1  BY <1>2, <2>1 DEF LookFor
    <3>2. PICK at \in 1 .. 5 : at = (IF stats.here THEN 1 + 2 ELSE 1 + 1) /\ at > 1  OBVIOUS
    <3>3. GoesTo(c, at)  BY <2>1, <3>1, <3>2 DEF LookFor, Counts, GoesTo
    <3> QED  BY <2>1, <3>1, <3>2, <3>3 DEF LookFor
  <2>2. CASE CountEnds(c) \/ CountGoes(c)  BY <1>1, <1>3, <2>2, CountsForward
  <2> QED  BY <2>1, <2>2 DEF Create, Add, Keep
<1>6. PICK at \in 1 .. 5 : GoesTo(c, at) /\ at > counting[c].at  BY <1>5
<1>7. /\ Unwritten' \subseteq Unwritten
      /\ counting[c].at = 3 => Cardinality(Unwritten') <= Cardinality(Unwritten) - counting[c].minutes
  <2>1. counting[c].at <= at /\ (counting[c].at = 3 => at > 3)  BY <1>2, <1>6
  <2> QED  BY <1>1, <1>6, <2>1, MinutesGoOn
<1>8. InSession \in Nat /\ InSession' \in Nat /\ InSession' <= InSession
  <2>1. InSession' <= InSession  BY <1>1, <1>4, <1>5 DEF InSession
  <2> QED  BY <1>1, <2>1, InSessionIs, InSessionWillBe
<1>9. InSession \in Int /\ InSession' \in Int /\ InSession' + spent <= InSession + spent'
  <2>1. spent' = spent /\ spent \in Nat  BY <1>1, <1>4
  <2>2. PICK s \in Nat, t \in Nat, p \in Nat : s = InSession /\ t = InSession' /\ p = spent  BY <1>8, <2>1
  <2>3. t <= s  BY <1>8, <2>2
  <2>4. t + p <= s + p  BY <2>3
  <2>5. InSession' + spent = t + p /\ InSession + spent' = s + p  BY <2>1, <2>2, Zenon
  <2>6. s \in Int /\ t \in Int  OBVIOUS
  <2>7. InSession' + spent <= InSession + spent'  BY <2>4, <2>5, Zenon
  <2> QED  BY <2>2, <2>6, <2>7, Zenon
<1>10. CASE stats'.minutes = stats.minutes  BY <1>7, <1>9, <1>10, NothingSpent
<1>11. CASE /\ Add(c)
            /\ stats' = [stats EXCEPT !.messages = IF counting[c].m # Nobody THEN @ + 1 ELSE @,
                                      !.minutes = @ + counting[c].minutes]
  <2>1. counting[c].at = 3  BY <1>2, <1>11 DEF Add
  <2>2. stats'.minutes = stats.minutes + counting[c].minutes  BY <1>1, <1>11 DEF StatsTyped
  <2>3. Cardinality(Unwritten) \in Nat /\ Cardinality(Unwritten') \in Nat  BY <1>1, UnwrittenIs, UnwrittenWillBe DEF UnwrittenTold
  <2>4. counting[c].minutes \in Nat  BY <1>2, GuildEventsAssumption
  <2>5. PICK a \in Nat, b \in Nat : a = Cardinality(Unwritten) /\ b = Cardinality(Unwritten')  BY <2>3
  <2>6. PICK s \in Nat, t \in Nat : s = InSession /\ t = InSession'  BY <1>8
  <2>7. PICK m \in Nat, k \in Nat, p \in Nat : m = stats.minutes /\ k = counting[c].minutes /\ p = spent
    BY <1>1, <2>4
  <2>8. stats.minutes + Cardinality(Unwritten) + InSession <= spent  BY DEF VoiceInv
  <2>9. m + a + s <= p  BY <2>5, <2>6, <2>7, <2>8
  <2>10. Cardinality(Unwritten') <= Cardinality(Unwritten) - counting[c].minutes  BY <1>7, <2>1
  <2>11. b <= a - k  BY <2>5, <2>7, <2>10
  <2>12. t <= s  BY <1>8, <2>6
  <2>13. m + k + b + t <= p  BY <2>9, <2>11, <2>12
  <2>14. stats'.minutes + Cardinality(Unwritten') + InSession' <= spent'
    BY <1>4, <2>2, <2>5, <2>6, <2>7, <2>13, Zenon
  <2> QED  BY <2>14 DEF VoiceInv
<1>12. ASSUME stats' = [stats EXCEPT !.here = TRUE]  PROVE stats'.minutes = stats.minutes
  BY <1>1, <1>12 DEF StatsTyped
<1> QED  BY <1>10, <1>11, <1>12 DEF LookFor, Create, Add, Keep

LEMMA VoiceInvStep == VoiceInv /\ [EventsNext]_eventsVars => VoiceInv'
<1> SUFFICES ASSUME VoiceInv, [EventsNext]_eventsVars  PROVE VoiceInv'  OBVIOUS
<1>1. StatsInv /\ StatsInv'  BY StatsInvStep DEF VoiceInv
<1>2. /\ StatsTyped /\ StatsTyped' /\ counting \in Seq(CountRecord) /\ MaxTime \in Nat
      /\ clock \in 0 .. MaxTime /\ session \in {None} \cup 0 .. clock /\ spent \in 0 .. clock
      /\ InSession \in Nat /\ InSession' \in Nat
  BY <1>1, InSessionIs, InSessionWillBe, GuildEventsAssumption DEF StatsInv, StatsTyped
<1>3. ASSUME UNCHANGED <<inVoice, clock, spent, stats, session>>, Unwritten' \subseteq Unwritten
      PROVE  VoiceInv'
  <2>1. InSession' = InSession  BY <1>3 DEF InSession
  <2>2. InSession \in Int /\ InSession' \in Int /\ InSession' + spent <= InSession + spent'  BY <1>2, <1>3, <2>1
  <2> QED  BY <1>1, <1>3, <2>2, NothingSpent
<1>4. ASSUME NEW m \in Messages, Write(m)  PROVE VoiceInv'
  <2>1. m \in Messages \cup {Nobody} /\ 0 \in 0 .. MaxTime /\ FALSE \in BOOLEAN  BY <1>2
  <2>2. PICK h \in CountRecord : h = Count(m, 0, FALSE)  BY <2>1, CountIs
  <2>3. h.minutes = 0  BY <2>2 DEF Count
  <2>4. counting' = Append(counting, h) /\ UNCHANGED <<inVoice, clock, spent, stats, session>>
    BY <1>4, <2>2 DEF Write, seen
  <2>5. Cardinality(Unwritten') <= Cardinality(Unwritten) + 0  BY <1>2, <2>3, <2>4, MinutesBegin
  <2>6. Cardinality(Unwritten) \in Nat /\ Cardinality(Unwritten') \in Nat  BY <1>2, UnwrittenIs, UnwrittenWillBe DEF UnwrittenTold
  <2>7. InSession' = InSession  BY <2>4 DEF InSession
  <2>8. stats.minutes \in Nat  BY <1>2 DEF StatsTyped
  <2> QED  BY <1>1, <1>2, <2>4, <2>5, <2>6, <2>7, <2>8 DEF VoiceInv
<1>5. ASSUME Tick  PROVE VoiceInv'
  <2>1. /\ clock' = clock + 1 /\ spent' = (IF inVoice THEN spent + 1 ELSE spent)
        /\ UNCHANGED <<inVoice, session, counting, stats>>
    BY <1>5 DEF Tick, statistics
  <2>2. Unwritten' = Unwritten  BY <1>2, <2>1, UnwrittenStays
  <2>3. InSession' + spent <= InSession + spent'  BY <1>2, <2>1 DEF InSession
  <2>4. InSession \in Int /\ InSession' \in Int  BY <1>2
  <2> QED  BY <1>1, <2>1, <2>2, <2>3, <2>4, NothingSpent
<1>6. ASSUME UNCHANGED <<inVoice, clock, spent, statistics>>  PROVE VoiceInv'
  <2>1. UNCHANGED <<inVoice, clock, spent, stats, session, counting>>  BY <1>6 DEF statistics
  <2>2. Unwritten' = Unwritten  BY <1>2, <2>1, UnwrittenStays
  <2> QED  BY <1>3, <2>1, <2>2
<1>7. ASSUME NEW m \in Messages, Edit(m) \/ AiRegister(m) \/ AiDelete(m) \/ PurgeLogs(m)  PROVE VoiceInv'
  <2>1. UNCHANGED <<inVoice, clock, spent, statistics>>
    BY <1>7 DEF Edit, AiRegister, AiDelete, PurgeLogs, Gone, guild, seen
  <2> QED  BY <1>6, <2>1
<1>8. ASSUME NEW m \in Messages, NEW who \in Deleters, Delete(m, who)  PROVE VoiceInv'
  BY <1>6, <1>8 DEF Delete, Gone
<1>9. ASSUME Bulk  PROVE VoiceInv'
  BY <1>6, <1>9 DEF Bulk, seen
<1>10. ASSUME NEW kind \in Changes, Change(kind)  PROVE VoiceInv'
  BY <1>6, <1>10 DEF Change, guild, seen
<1>11. ASSUME NEW e \in DOMAIN events, Look(e) \/ Persist(e) \/ Send(e) \/ Store(e)  PROVE VoiceInv'
  BY <1>6, <1>11 DEF Look, Persist, Send, Store, guild
<1>12. ASSUME NEW i \in DOMAIN audit, Age(i)  PROVE VoiceInv'
  BY <1>6, <1>12 DEF Age, seen
<1>13. ASSUME UNCHANGED eventsVars  PROVE VoiceInv'
  BY <1>6, <1>13 DEF eventsVars, guild, seen
<1> QED
  BY <1>1, <1>4, <1>5, <1>7, <1>8, <1>9, <1>10, <1>11, <1>12, <1>13, VoiceMoves, MinutesWritten DEF EventsNext

\* The statistics claim nothing that did not happen: no message is in the history that the counter has
\* not, and of the minutes the member was in voice, none is added twice, however his moves overlap
\* with handlers that are still writing the last ones and with writes that fail (stats_cog.py:53-80).
THEOREM StatsCorrect == EventsSpec => []StatsAreReal
<1>1. EventsSpec => []VoiceInv  BY VoiceInvInit, VoiceInvStep, PTL DEF EventsSpec
<1>2. VoiceInv => VoiceTimeIsReal
  <2> SUFFICES ASSUME VoiceInv  PROVE VoiceTimeIsReal  OBVIOUS
  <2>1. StatsTyped  BY DEF VoiceInv, StatsInv
  <2>2. Cardinality(Unwritten) \in Nat /\ InSession \in Nat  BY <2>1, UnwrittenIs, InSessionIs DEF UnwrittenTold
  <2>3. stats.minutes \in Nat /\ spent \in Nat  BY <2>1, GuildEventsAssumption DEF StatsTyped
  <2> QED  BY <2>2, <2>3 DEF VoiceInv, VoiceTimeIsReal
<1>3. HistoryIsCounted /\ VoiceTimeIsReal => StatsAreReal  BY DEF StatsAreReal
<1> QED  BY <1>1, <1>2, <1>3, HistoryInCounter, PTL

=============================================================================

-------------------------- MODULE BotLifecycleProofs --------------------------
(***************************************************************************)
(* The process of the bot, its database manager and the synchronisation of  *)
(* its commands, for every number of coroutines, of modules, of commands and *)
(* of failures.                                                            *)
(***************************************************************************)
EXTENDS BotLifecycle, TLAPS

-----------------------------------------------------------------------------
(* The database manager.                                                   *)

Op == [kind : Kinds, stage : Stages, tries : 0 .. Attempts, on : Nat, id : Nat]

DbTyped ==
    /\ opened \in Nat /\ connection \in 0 .. opened /\ lost \subseteq 1 .. opened
    /\ lastval \in Seq(Nat) /\ Len(lastval) = opened /\ \A n \in 1 .. opened : lastval[n] <= Len(table)
    /\ lock \in Callers \cup {Nobody} /\ closing \in BOOLEAN /\ closed \in BOOLEAN
    /\ table \in Seq(Callers \cup {Nobody}) /\ op \in [Callers -> Op] /\ faults \in 0 .. MaxFaults
    /\ \A c \in Callers : op[c].on <= opened /\ op[c].id <= Len(table)

\* The lock is held from the connection to the answer.
Holds(c) == op[c].stage \in {"connect", "execute", "lastval"}
Sends(c) == op[c].stage \in {"execute", "lastval"}
\* It inserts a row that gets a number.
OwnRow(c) == op[c].kind = "insert"

CallerOK(c) ==
    /\ Holds(c) => lock = c
    /\ Sends(c) => op[c].on = connection /\ connection # None
    /\ At(c, "connect") => ~Open
    /\ At(c, "lastval") /\ OwnRow(c) => lastval[connection] \in DOMAIN table /\ table[lastval[connection]] = c
    /\ At(c, "ok") /\ OwnRow(c) => op[c].id \in DOMAIN table /\ table[op[c].id] = c

\* Every connection but the one that is used is closed; after close() none is taken again.
ConnectionsOK ==
    /\ \A n \in 1 .. opened : n = connection \/ n \in lost
    /\ closed => closing /\ lock = Nobody /\ connection = None

DbFormed == DbTyped /\ ConnectionsOK /\ \A c \in Callers : CallerOK(c)

OpIs(c, kind, stage, tries, on, id) ==
    /\ op' \in [Callers -> Op] /\ \A d \in Callers \ {c} : op'[d] = op[d]
    /\ op'[c].kind = kind /\ op'[c].stage = stage /\ op'[c].tries = tries /\ op'[c].on = on
    /\ op'[c].id = id

LEMMA IdleFields ==
  Idle \in Op /\ Idle.kind = "other" /\ Idle.stage = "idle" /\ Idle.tries = 0 /\ Idle.on = 0 /\ Idle.id = 0
BY DatabaseAssumption DEF Idle, Op, Kinds, Stages, None

LEMMA OpTo ==
  ASSUME op \in [Callers -> Op], NEW c \in Callers, NEW stage \in Stages, To(c, stage)
  PROVE  OpIs(c, op[c].kind, stage, op[c].tries, op[c].on, op[c].id)
BY DEF To, OpIs, Op

Sent(c, on) == [op EXCEPT ![c].stage = "execute", ![c].on = on]
LEMMA OpOn ==
  ASSUME op \in [Callers -> Op], NEW c \in Callers, NEW on \in Nat,
         op' = Sent(c, on)
  PROVE  OpIs(c, op[c].kind, "execute", op[c].tries, on, op[c].id)
<1> DEFINE step == [op EXCEPT ![c].stage = "execute"]
<1>1. "execute" \in Stages  BY DEF Stages
<1>2. /\ step \in [Callers -> Op] /\ \A d \in Callers \ {c} : step[d] = op[d]
      /\ step[c].kind = op[c].kind /\ step[c].stage = "execute" /\ step[c].tries = op[c].tries
      /\ step[c].id = op[c].id
  BY <1>1 DEF Op
<1>3. op' = [step EXCEPT ![c].on = on]  BY DEF Sent
<1>4. /\ op' \in [Callers -> Op] /\ \A d \in Callers \ {c} : op'[d] = step[d]
      /\ op'[c].kind = step[c].kind /\ op'[c].stage = step[c].stage /\ op'[c].tries = step[c].tries
      /\ op'[c].on = on /\ op'[c].id = step[c].id
  <2> HIDE DEF step
  <2> QED  BY <1>2, <1>3 DEF Op
<1> HIDE DEF step
<1> QED  BY <1>2, <1>4 DEF OpIs

LEMMA OpRaised ==
  ASSUME op \in [Callers -> Op], NEW c \in Callers, Raised(c)
  PROVE  OpIs(c, "other", "raised", 0, 0, 0)
<1> DEFINE r == [Idle EXCEPT !.stage = "raised"]
<1>1. r \in Op /\ r.kind = "other" /\ r.stage = "raised" /\ r.tries = 0 /\ r.on = 0 /\ r.id = 0
  BY IdleFields DEF Op, Stages
<1>2. op' = [op EXCEPT ![c] = r]  BY DEF Raised
<1> HIDE DEF r
<1> QED  BY <1>1, <1>2 DEF OpIs

LEMMA OpCall ==
  ASSUME op \in [Callers -> Op], NEW c \in Callers, NEW kind \in Kinds,
         op' = [op EXCEPT ![c] = [Idle EXCEPT !.kind = kind, !.stage = "lock"]]
  PROVE  OpIs(c, kind, "lock", 0, 0, 0)
<1> DEFINE q == [Idle EXCEPT !.kind = kind]
           r == [q EXCEPT !.stage = "lock"]
<1>1. q \in Op /\ q.kind = kind /\ q.tries = 0 /\ q.on = 0 /\ q.id = 0  BY IdleFields DEF Op
<1>2. r \in Op /\ r.kind = kind /\ r.stage = "lock" /\ r.tries = 0 /\ r.on = 0 /\ r.id = 0
  <2> HIDE DEF q
  <2> QED  BY <1>1 DEF Op, Stages
<1>3. op' = [op EXCEPT ![c] = r]  OBVIOUS
<1> HIDE DEF r
<1> QED  BY <1>2, <1>3 DEF OpIs

LEMMA OpAnswered ==
  ASSUME op \in [Callers -> Op], NEW c \in Callers, NEW stage \in Stages, NEW id \in Nat, Answered(c, stage, id)
  PROVE  OpIs(c, op[c].kind, stage, 0, 0, id) /\ lock' = Nobody
<1> DEFINE p == [Idle EXCEPT !.kind = op[c].kind]
           q == [p EXCEPT !.stage = stage]
           r == [q EXCEPT !.id = id]
<1>1. p \in Op /\ p.kind = op[c].kind /\ p.tries = 0 /\ p.on = 0  BY IdleFields DEF Op
<1>2. q \in Op /\ q.kind = op[c].kind /\ q.stage = stage /\ q.tries = 0 /\ q.on = 0
  <2> HIDE DEF p
  <2> QED  BY <1>1 DEF Op
<1>3. r \in Op /\ r.kind = op[c].kind /\ r.stage = stage /\ r.tries = 0 /\ r.on = 0 /\ r.id = id
  <2> HIDE DEF q
  <2> QED  BY <1>2 DEF Op
<1>4. op' = [op EXCEPT ![c] = r] /\ lock' = Nobody  BY DEF Answered
<1> HIDE DEF r
<1> QED  BY <1>3, <1>4 DEF OpIs

LEMMA OpRetried ==
  ASSUME op \in [Callers -> Op], NEW c \in Callers, Retried(c)
  PROVE  \/ OpIs(c, "other", "raised", 0, 0, 0)
         \/ OpIs(c, op[c].kind, "sleep", op[c].tries + 1, 0, op[c].id)
<1>1. CASE op[c].tries + 1 >= Attempts
  <2>1. Raised(c)  BY <1>1 DEF Retried
  <2> QED  BY <2>1, OpRaised
<1>2. CASE ~(op[c].tries + 1 >= Attempts)
  <2>1. op' = [op EXCEPT ![c].tries = @ + 1, ![c].stage = "sleep", ![c].on = None]  BY <1>2 DEF Retried
  <2>2. op[c] \in Op /\ op[c].tries + 1 \in 0 .. Attempts /\ "sleep" \in Stages /\ None \in Nat
    BY <1>2, DatabaseAssumption DEF Op, Stages, None
  <2> DEFINE s1 == [op EXCEPT ![c].tries = @ + 1]
             s2 == [s1 EXCEPT ![c].stage = "sleep"]
  <2>3. /\ s1 \in [Callers -> Op] /\ \A d \in Callers \ {c} : s1[d] = op[d]
        /\ s1[c].kind = op[c].kind /\ s1[c].tries = op[c].tries + 1 /\ s1[c].id = op[c].id
    BY <2>2 DEF Op
  <2>4. /\ s2 \in [Callers -> Op] /\ \A d \in Callers \ {c} : s2[d] = op[d]
        /\ s2[c].kind = op[c].kind /\ s2[c].tries = op[c].tries + 1 /\ s2[c].id = op[c].id
        /\ s2[c].stage = "sleep"
    <3> HIDE DEF s1
    <3> QED  BY <2>2, <2>3 DEF Op
  <2>5. op' = [s2 EXCEPT ![c].on = None]  BY <2>1
  <2> HIDE DEF s2
  <2>6. OpIs(c, op[c].kind, "sleep", op[c].tries + 1, 0, op[c].id)
    BY <2>2, <2>4, <2>5 DEF OpIs, Op, None
  <2> QED  BY <2>6
<1> QED  BY <1>1, <1>2

\* A caller who does not hold the lock is disturbed by nothing that one who may does.
LEMMA Bystander ==
  ASSUME DbFormed, NEW c, NEW d \in Callers, d # c, lock \in {c, Nobody}, op'[d] = op[d],
         \A i \in DOMAIN table : i \in DOMAIN table' /\ table'[i] = table[i]
  PROVE  CallerOK(d)'
<1>1. CallerOK(d) /\ d # Nobody  BY DatabaseAssumption DEF DbFormed, Nobody
<1>2. ~Holds(d)  BY <1>1 DEF CallerOK
<1> QED  BY <1>1, <1>2 DEF CallerOK, Holds, Sends, At, OwnRow

LEMMA Unmoved ==
  ASSUME DbFormed, NEW d \in Callers, op'[d] = op[d], UNCHANGED <<connection, lost, lastval, lock, table>>
  PROVE  CallerOK(d)'
<1>1. CallerOK(d)  BY DEF DbFormed
<1> QED  BY <1>1 DEF CallerOK, Holds, Sends, At, OwnRow, Open

LEMMA SameTyped ==
  ASSUME DbTyped, NEW c \in Callers, \A d \in Callers \ {c} : op'[d] = op[d],
         op'[c].on <= opened', op'[c].id <= Len(table'),
         opened <= opened', opened' \in Nat, Len(table) <= Len(table'), Len(table') \in Nat
  PROVE  \A d \in Callers : op'[d].on <= opened' /\ op'[d].id <= Len(table')
<1> SUFFICES ASSUME NEW d \in Callers PROVE op'[d].on <= opened' /\ op'[d].id <= Len(table')  OBVIOUS
<1>1. CASE d = c  BY <1>1
<1>2. CASE d # c
  <2>1. op'[d] = op[d] /\ op[d] \in Op /\ op[d].on <= opened /\ op[d].id <= Len(table)  BY <1>2 DEF DbTyped
  <2>2. op[d].on \in Nat /\ op[d].id \in Nat /\ opened \in Nat /\ Len(table) \in Nat  BY <2>1 DEF Op, DbTyped
  <2> QED  BY <2>1, <2>2
<1> QED  BY <1>1, <1>2

LEMMA CallKeeps == ASSUME DbFormed, NEW c \in Callers, Call(c) PROVE DbFormed'
<1>1. PICK kind \in Kinds : op' = [op EXCEPT ![c] = [Idle EXCEPT !.kind = kind, !.stage = "lock"]]
  BY DatabaseAssumption DEF Call
<1>2. UNCHANGED <<connection, opened, lost, lastval, lock, closing, closed, table, faults>>  BY DEF Call
<1>3. OpIs(c, kind, "lock", 0, 0, 0)  BY <1>1, OpCall DEF DbFormed, DbTyped
<1>4. \A d \in Callers : op'[d].on <= opened' /\ op'[d].id <= Len(table')
  BY <1>2, <1>3, SameTyped DEF DbFormed, DbTyped, OpIs
<1>5. DbTyped'  BY <1>2, <1>3, <1>4 DEF DbFormed, DbTyped, OpIs
<1>6. ConnectionsOK'  BY <1>2 DEF DbFormed, ConnectionsOK
<1>7. CallerOK(c)'  BY <1>3 DEF CallerOK, OpIs, Holds, Sends, At
<1>8. \A d \in Callers \ {c} : CallerOK(d)'  BY <1>2, <1>3, Unmoved DEF OpIs
<1> QED  BY <1>5, <1>6, <1>7, <1>8 DEF DbFormed

LEMMA AgainKeeps == ASSUME DbFormed, NEW c \in Callers, Again(c) PROVE DbFormed'
<1>2. UNCHANGED <<connection, opened, lost, lastval, lock, closing, closed, table, faults>> /\ To(c, "lock")
  BY DEF Again
<1>3. OpIs(c, op[c].kind, "lock", op[c].tries, op[c].on, op[c].id)
  <2>1. "lock" \in Stages  BY DEF Stages
  <2> QED  BY <1>2, <2>1, OpTo DEF DbFormed, DbTyped
<1>4. \A d \in Callers : op'[d].on <= opened' /\ op'[d].id <= Len(table')
  BY <1>2, <1>3 DEF DbFormed, DbTyped, OpIs
<1>5. DbTyped'  BY <1>2, <1>3, <1>4 DEF DbFormed, DbTyped, OpIs
<1>6. ConnectionsOK'  BY <1>2 DEF DbFormed, ConnectionsOK
<1>7. CallerOK(c)'  BY <1>3 DEF CallerOK, OpIs, Holds, Sends, At
<1>8. \A d \in Callers \ {c} : CallerOK(d)'  BY <1>2, <1>3, Unmoved DEF OpIs
<1> QED  BY <1>5, <1>6, <1>7, <1>8 DEF DbFormed

LEMMA AcquireKeeps == ASSUME DbFormed, NEW c \in Callers, Acquire(c) PROVE DbFormed'
<1>1. UNCHANGED <<connection, opened, lost, lastval, closing, closed, table, faults>> /\ lock = Nobody
  BY DEF Acquire
<1>2. DbTyped /\ ConnectionsOK /\ op \in [Callers -> Op]  BY DEF DbFormed, DbTyped
<1>3. CASE Refused /\ Raised(c) /\ lock' = lock
  <2>1. OpIs(c, "other", "raised", 0, 0, 0)  BY <1>2, <1>3, OpRaised
  <2>2. \A d \in Callers : op'[d].on <= opened' /\ op'[d].id <= Len(table')
    <3>1. "other" \in Kinds  BY DEF Kinds
    <3> QED  BY <1>1, <1>2, <2>1, <3>1, SameTyped DEF DbTyped, OpIs
  <2>3. DbTyped'  BY <1>1, <1>2, <1>3, <2>1, <2>2 DEF DbTyped, OpIs
  <2>4. ConnectionsOK'  BY <1>1, <1>2, <1>3 DEF ConnectionsOK
  <2>5. CallerOK(c)'  BY <2>1 DEF CallerOK, OpIs, Holds, Sends, At
  <2>6. \A d \in Callers \ {c} : CallerOK(d)'  BY <1>1, <1>3, <2>1, Unmoved DEF OpIs
  <2> QED  BY <2>3, <2>4, <2>5, <2>6 DEF DbFormed
<1>4. CASE ~Refused /\ lock' = c
  <2>1. ~closed  BY <1>2, <1>4 DEF ConnectionsOK, Refused
  <2>2. ConnectionsOK'  BY <1>1, <1>2, <2>1 DEF ConnectionsOK
  <2>3. ASSUME \A d \in Callers \ {c} : op'[d] = op[d] PROVE \A d \in Callers \ {c} : CallerOK(d)'
    BY <1>1, <2>3, Bystander
  <2>4. CASE Open /\ op' = Sent(c, connection)
    <3>1. connection \in Nat  BY <1>2 DEF DbTyped
    <3>2. OpIs(c, op[c].kind, "execute", op[c].tries, connection, op[c].id)  BY <1>2, <2>4, <3>1, OpOn
    <3>3. \A d \in Callers : op'[d].on <= opened' /\ op'[d].id <= Len(table')
      BY <1>1, <1>2, <3>2 DEF DbTyped, OpIs
    <3>4. DbTyped'  BY <1>1, <1>2, <1>4, <3>2, <3>3 DEF DbTyped, OpIs
    <3>5. CallerOK(c)'  BY <1>1, <1>4, <2>4, <3>2 DEF CallerOK, OpIs, Holds, Sends, At, Open
    <3> QED  BY <2>2, <2>3, <3>2, <3>4, <3>5 DEF DbFormed, OpIs
  <2>5. CASE ~Open /\ To(c, "connect")
    <3>1. "connect" \in Stages  BY DEF Stages
    <3>2. OpIs(c, op[c].kind, "connect", op[c].tries, op[c].on, op[c].id)  BY <1>2, <2>5, <3>1, OpTo
    <3>3. \A d \in Callers : op'[d].on <= opened' /\ op'[d].id <= Len(table')
      BY <1>1, <1>2, <3>2 DEF DbTyped, OpIs
    <3>4. DbTyped'  BY <1>1, <1>2, <1>4, <3>2, <3>3 DEF DbTyped, OpIs
    <3>5. CallerOK(c)'  BY <1>1, <1>4, <2>5, <3>2 DEF CallerOK, OpIs, Holds, Sends, At, Open
    <3> QED  BY <2>2, <2>3, <3>2, <3>4, <3>5 DEF DbFormed, OpIs
  <2> QED  BY <1>4, <2>4, <2>5 DEF Acquire, Sent
<1> QED  BY <1>3, <1>4 DEF Acquire

LEMMA Appending ==
  ASSUME NEW S, NEW s \in Seq(S), NEW x \in S
  PROVE  /\ Append(s, x) \in Seq(S) /\ Len(Append(s, x)) = Len(s) + 1 /\ Len(s) \in Nat
         /\ DOMAIN Append(s, x) = 1 .. Len(s) + 1 /\ Append(s, x)[Len(s) + 1] = x
         /\ \A i \in 1 .. Len(s) : Append(s, x)[i] = s[i]
OBVIOUS

LEMMA InsertedTable ==
  ASSUME DbTyped, NEW c \in Callers, op[c].on \in 1 .. opened, Inserted(c) \/ UNCHANGED <<table, lastval>>
  PROVE  /\ table' \in Seq(Callers \cup {Nobody}) /\ Len(table') \in Nat /\ Len(table) <= Len(table') /\ Len(table) \in Nat
         /\ lastval' \in Seq(Nat) /\ Len(lastval') = opened /\ \A n \in 1 .. opened : lastval'[n] <= Len(table')
         /\ \A i \in DOMAIN table : i \in DOMAIN table' /\ table'[i] = table[i]
         /\ OwnRow(c) /\ Inserted(c) => lastval'[op[c].on] \in DOMAIN table' /\ table'[lastval'[op[c].on]] = c
<1>1. /\ table \in Seq(Callers \cup {Nobody}) /\ lastval \in Seq(Nat) /\ Len(lastval) = opened /\ opened \in Nat
      /\ \A n \in 1 .. opened : lastval[n] <= Len(table)
  BY DEF DbTyped
<1>2. Len(table) \in Nat /\ DOMAIN table = 1 .. Len(table) /\ DOMAIN lastval = 1 .. opened
      /\ \A n \in 1 .. opened : lastval[n] \in Nat  BY <1>1
<1>3. CASE Numbers(c) /\ Inserted(c)
  <2>0. PICK w \in Callers \cup {Nobody} : w = IF op[c].kind = "insert" THEN c ELSE Nobody  OBVIOUS
  <2>1. table' = Append(table, w)  BY <1>3, <2>0 DEF Inserted
  <2>5. lastval' = [lastval EXCEPT ![op[c].on] = Len(table) + 1]  BY <1>3 DEF Inserted
  <2>2. /\ table' \in Seq(Callers \cup {Nobody}) /\ Len(table') = Len(table) + 1 /\ DOMAIN table' = 1 .. Len(table) + 1
        /\ table'[Len(table) + 1] = w /\ \A i \in 1 .. Len(table) : table'[i] = table[i]
    BY <1>1, <2>1, Appending
  <2>3. /\ lastval' \in Seq(Nat) /\ Len(lastval') = opened /\ lastval'[op[c].on] = Len(table) + 1
        /\ \A n \in 1 .. opened : n # op[c].on => lastval'[n] = lastval[n]
    <3>1. Len(table) + 1 \in Nat  BY <1>2
    <3> QED  BY <1>1, <1>2, <2>5, <3>1
  <2>4. ASSUME NEW n \in 1 .. opened PROVE lastval'[n] <= Len(table')
    <3>1. CASE n = op[c].on  BY <1>2, <2>2, <2>3, <3>1
    <3>2. CASE n # op[c].on
      <4>1. lastval'[n] = lastval[n] /\ lastval[n] <= Len(table) /\ lastval[n] \in Nat  BY <1>1, <1>2, <2>3, <3>2
      <4> QED  BY <1>2, <2>2, <4>1
    <3> QED  BY <3>1, <3>2
  <2>6. OwnRow(c) => w = c  BY <2>0 DEF OwnRow
  <2> QED  BY <1>2, <2>2, <2>3, <2>4, <2>6
<1>4. CASE ~(Numbers(c) /\ Inserted(c))
  <2>1. table' = table /\ lastval' = lastval  BY <1>4 DEF Inserted
  <2>2. OwnRow(c) => Numbers(c)  BY DEF OwnRow, Numbers
  <2> QED  BY <1>1, <1>2, <1>4, <2>1, <2>2
<1> QED  BY <1>3, <1>4

LEMMA Sender ==
  ASSUME DbFormed, NEW c \in Callers, Holds(c)
  PROVE  /\ DbTyped /\ ConnectionsOK /\ op \in [Callers -> Op] /\ CallerOK(c) /\ lock = c /\ ~closed /\ c # Nobody
         /\ Sends(c) => op[c].on = connection /\ connection \in 1 .. opened
<1>1. DbTyped /\ ConnectionsOK /\ op \in [Callers -> Op] /\ CallerOK(c) /\ c # Nobody
  BY DatabaseAssumption DEF DbFormed, DbTyped, Nobody
<1>2. lock = c /\ ~closed  BY <1>1 DEF CallerOK, ConnectionsOK
<1>3. Sends(c) => op[c].on = connection /\ connection \in 1 .. opened  BY <1>1 DEF CallerOK, DbTyped, None
<1> QED  BY <1>1, <1>2, <1>3

LEMMA ConnectKeeps == ASSUME DbFormed, NEW c \in Callers, Connect(c) PROVE DbFormed'
<1>1. Holds(c) /\ UNCHANGED <<lost, closing, closed, table>>  BY DEF Connect, Holds, At
<1>2. DbTyped /\ ConnectionsOK /\ op \in [Callers -> Op] /\ CallerOK(c) /\ lock = c /\ ~closed  BY <1>1, Sender
<1>3. ~Open  BY <1>2 DEF CallerOK, Connect
<1>4. \A d \in Callers : op'[d] = op[d] /\ d # c => CallerOK(d)'  BY <1>1, <1>2, Bystander
<1>5. Len(table) \in Nat /\ opened \in Nat  BY <1>2 DEF DbTyped
<1>6. CASE /\ connection' = opened + 1 /\ opened' = opened + 1 /\ lastval' = Append(lastval, 0)
           /\ op' = Sent(c, opened + 1) /\ lock' = lock /\ faults' = faults
  <2>1. OpIs(c, op[c].kind, "execute", op[c].tries, opened + 1, op[c].id)  BY <1>2, <1>5, <1>6, OpOn
  <2>2. \A d \in Callers : op'[d].on <= opened' /\ op'[d].id <= Len(table')
    <3>1. op[c].kind \in Kinds /\ op[c].id \in Nat /\ op[c].id <= Len(table)  BY <1>2 DEF DbTyped, Op
    <3> QED  BY <1>1, <1>2, <1>5, <1>6, <2>1, <3>1, SameTyped DEF OpIs
  <2>3. lastval' \in Seq(Nat) /\ Len(lastval') = opened' /\ \A n \in 1 .. opened' : lastval'[n] <= Len(table')
    <3>1. lastval \in Seq(Nat) /\ Len(lastval) = opened /\ \A n \in 1 .. opened : lastval[n] <= Len(table)
      BY <1>2 DEF DbTyped
    <3>2. /\ lastval' \in Seq(Nat) /\ Len(lastval') = opened + 1 /\ lastval'[opened + 1] = 0
          /\ \A n \in 1 .. opened : lastval'[n] = lastval[n]
      BY <1>5, <1>6, <3>1
    <3> QED  BY <1>1, <1>5, <1>6, <3>1, <3>2
  <2>4. opened' \in Nat /\ connection' \in 0 .. opened' /\ lost' \subseteq 1 .. opened'
    BY <1>1, <1>2, <1>5, <1>6 DEF DbTyped
  <2>5. DbTyped'  BY <1>1, <1>2, <1>6, <2>1, <2>2, <2>3, <2>4 DEF DbTyped, OpIs
  <2>6. ConnectionsOK'
    <3>1. \A n \in 1 .. opened : n \in lost  BY <1>2, <1>3 DEF ConnectionsOK, Open, None
    <3> QED  BY <1>1, <1>2, <1>5, <1>6, <3>1 DEF ConnectionsOK
  <2>7. CallerOK(c)'  BY <1>2, <1>5, <1>6, <2>1 DEF CallerOK, OpIs, Holds, Sends, At, None
  <2> QED  BY <1>4, <2>1, <2>5, <2>6, <2>7 DEF DbFormed, OpIs
<1>7. CASE Fail /\ Raised(c) /\ lock' = Nobody /\ UNCHANGED <<connection, opened, lastval>>
  <2>1. OpIs(c, "other", "raised", 0, 0, 0)  BY <1>2, <1>7, OpRaised
  <2>2. \A d \in Callers : op'[d].on <= opened' /\ op'[d].id <= Len(table')
    <3>1. "other" \in Kinds  BY DEF Kinds
    <3> QED  BY <1>1, <1>2, <1>5, <1>7, <2>1, <3>1, SameTyped DEF OpIs
  <2>3. DbTyped'  BY <1>1, <1>2, <1>7, <2>1, <2>2, DatabaseAssumption DEF DbTyped, OpIs, Fail
  <2>4. ConnectionsOK'  BY <1>1, <1>2, <1>7 DEF ConnectionsOK
  <2>5. CallerOK(c)'  BY <2>1 DEF CallerOK, OpIs, Holds, Sends, At
  <2> QED  BY <1>4, <2>1, <2>3, <2>4, <2>5 DEF DbFormed, OpIs
<1> QED  BY <1>6, <1>7 DEF Connect, Sent

LEMMA ExecuteKeeps == ASSUME DbFormed, NEW c \in Callers, Execute(c) PROVE DbFormed'
<1>1. Holds(c) /\ Sends(c) /\ UNCHANGED <<connection, opened, lost, closing, closed, faults>> /\ Inserted(c)
  BY DEF Execute, Holds, Sends, At
<1>2. /\ DbTyped /\ ConnectionsOK /\ op \in [Callers -> Op] /\ CallerOK(c) /\ lock = c /\ ~closed
      /\ op[c].on = connection /\ connection \in 1 .. opened
  BY <1>1, Sender
<1>3. /\ table' \in Seq(Callers \cup {Nobody}) /\ Len(table') \in Nat /\ Len(table) <= Len(table') /\ Len(table) \in Nat
      /\ lastval' \in Seq(Nat) /\ Len(lastval') = opened /\ \A n \in 1 .. opened : lastval'[n] <= Len(table')
      /\ \A i \in DOMAIN table : i \in DOMAIN table' /\ table'[i] = table[i]
      /\ OwnRow(c) => lastval'[connection] \in DOMAIN table' /\ table'[lastval'[connection]] = c
  BY <1>1, <1>2, InsertedTable
<1>4. \A d \in Callers : op'[d] = op[d] /\ d # c => CallerOK(d)'  BY <1>2, <1>3, Bystander
<1>5. ConnectionsOK'  BY <1>1, <1>2 DEF ConnectionsOK
<1>6. opened \in Nat /\ op[c].kind \in Kinds /\ op[c].id \in Nat /\ op[c].id <= Len(table)
  BY <1>2 DEF DbTyped, Op
<1>7. CASE Inserts(c) /\ To(c, "lastval") /\ lock' = c
  <2>1. "lastval" \in Stages  BY DEF Stages
  <2>2. OpIs(c, op[c].kind, "lastval", op[c].tries, op[c].on, op[c].id)  BY <1>2, <1>7, <2>1, OpTo
  <2>3. \A d \in Callers : op'[d].on <= opened' /\ op'[d].id <= Len(table')
    <3>1. op[c].on \in Nat /\ op[c].on <= opened /\ op[c].id <= Len(table')  BY <1>2, <1>3, <1>6
    <3> QED  BY <1>1, <1>2, <1>3, <1>6, <2>2, <3>1, SameTyped DEF OpIs
  <2>4. DbTyped'  BY <1>1, <1>2, <1>3, <1>7, <2>2, <2>3 DEF DbTyped, OpIs
  <2>5. CallerOK(c)'  BY <1>1, <1>2, <1>3, <1>7, <2>2 DEF CallerOK, OpIs, Holds, Sends, At, None, OwnRow
  <2> QED  BY <1>4, <1>5, <2>2, <2>4, <2>5 DEF DbFormed, OpIs
<1>8. CASE ~Inserts(c) /\ Answered(c, "ok", 0)
  <2>1. "ok" \in Stages /\ 0 \in Nat  BY DEF Stages
  <2>2. OpIs(c, op[c].kind, "ok", 0, 0, 0) /\ lock' = Nobody  BY <1>2, <1>8, <2>1, OpAnswered
  <2>3. \A d \in Callers : op'[d].on <= opened' /\ op'[d].id <= Len(table')
    BY <1>1, <1>2, <1>3, <1>6, <2>2, SameTyped DEF OpIs
  <2>4. DbTyped'  BY <1>1, <1>2, <1>3, <2>2, <2>3 DEF DbTyped, OpIs
  <2>5. CallerOK(c)'  BY <1>8, <2>2 DEF CallerOK, OpIs, Holds, Sends, At, Inserts, OwnRow
  <2> QED  BY <1>4, <1>5, <2>2, <2>4, <2>5 DEF DbFormed, OpIs
<1> QED  BY <1>7, <1>8 DEF Execute, AfterInsert

LEMMA LastValKeeps == ASSUME DbFormed, NEW c \in Callers, LastVal(c) PROVE DbFormed'
<1>1. /\ Holds(c) /\ Sends(c) /\ At(c, "lastval") /\ Answered(c, "ok", lastval[op[c].on])
      /\ UNCHANGED <<connection, opened, lost, lastval, closing, closed, table, faults>>
  BY DEF LastVal, Holds, Sends, At
<1>2. /\ DbTyped /\ ConnectionsOK /\ op \in [Callers -> Op] /\ CallerOK(c) /\ lock = c /\ ~closed
      /\ op[c].on = connection /\ connection \in 1 .. opened
  BY <1>1, Sender
<1>3. OwnRow(c) => lastval[connection] \in DOMAIN table /\ table[lastval[connection]] = c  BY <1>1, <1>2 DEF CallerOK
<1>4. \A d \in Callers : op'[d] = op[d] /\ d # c => CallerOK(d)'  BY <1>1, <1>2, Bystander
<1>5. ConnectionsOK'  BY <1>1, <1>2 DEF ConnectionsOK
<1>6. opened \in Nat /\ Len(table) \in Nat /\ op[c].kind \in Kinds /\ lastval[connection] \in Nat
      /\ lastval[connection] <= Len(table)
  BY <1>2 DEF DbTyped, Op
<1>7. OpIs(c, op[c].kind, "ok", 0, 0, lastval[connection]) /\ lock' = Nobody
  <2>1. "ok" \in Stages  BY DEF Stages
  <2> QED  BY <1>1, <1>2, <1>6, <2>1, OpAnswered
<1>8. \A d \in Callers : op'[d].on <= opened' /\ op'[d].id <= Len(table')
  BY <1>1, <1>2, <1>6, <1>7, SameTyped DEF OpIs
<1>9. DbTyped'  BY <1>1, <1>2, <1>7, <1>8 DEF DbTyped, OpIs
<1>10. CallerOK(c)'  BY <1>1, <1>3, <1>7 DEF CallerOK, OpIs, Holds, Sends, At, OwnRow
<1> QED  BY <1>4, <1>5, <1>7, <1>9, <1>10 DEF DbFormed, OpIs

LEMMA BreakKeeps == ASSUME DbFormed, NEW c \in Callers, Break(c) PROVE DbFormed'
<1>1. Holds(c) /\ Sends(c) /\ UNCHANGED <<opened, closing, closed>> /\ lock' = Nobody /\ Fail
  BY DEF Break, Holds, Sends, At
<1>2. /\ DbTyped /\ ConnectionsOK /\ op \in [Callers -> Op] /\ CallerOK(c) /\ lock = c /\ ~closed
      /\ op[c].on = connection /\ connection \in 1 .. opened
  BY <1>1, Sender
<1>3. PICK applied, broken, repeated \in BOOLEAN :
        /\ repeated /\ applied => broken
        /\ IF applied THEN Inserted(c) ELSE UNCHANGED <<table, lastval>>
        /\ IF repeated THEN Retried(c) /\ Invalidated(broken)
           ELSE /\ Raised(c)
                /\ lost' = IF broken THEN lost \cup {op[c].on} ELSE lost
                /\ UNCHANGED connection
  BY DEF Break
<1>4. /\ table' \in Seq(Callers \cup {Nobody}) /\ Len(table') \in Nat /\ Len(table) <= Len(table') /\ Len(table) \in Nat
      /\ lastval' \in Seq(Nat) /\ Len(lastval') = opened /\ \A n \in 1 .. opened : lastval'[n] <= Len(table')
      /\ \A i \in DOMAIN table : i \in DOMAIN table' /\ table'[i] = table[i]
  BY <1>2, <1>3, InsertedTable
<1>5. \A d \in Callers : op'[d] = op[d] /\ d # c => CallerOK(d)'  BY <1>2, <1>4, Bystander
<1>6. opened \in Nat /\ op[c].id \in Nat /\ op[c].id <= Len(table) /\ lost \subseteq 1 .. opened
  BY <1>2 DEF DbTyped, Op
<1>7. \/ OpIs(c, "other", "raised", 0, 0, 0)
      \/ OpIs(c, op[c].kind, "sleep", op[c].tries + 1, 0, op[c].id)
  BY <1>2, <1>3, OpRetried, OpRaised
<1>8. /\ lost' \subseteq 1 .. opened /\ lost \subseteq lost' /\ connection' \in {connection, 0}
      /\ connection' = 0 => connection \in lost'
  <2>1. connection # 0 /\ connection \in 1 .. opened  BY <1>2, <1>6
  <2>2. CASE repeated /\ broken
    <3>1. connection' = 0 /\ lost' = lost \cup {connection}  BY <1>3, <2>2 DEF Invalidated, None
    <3> QED  BY <1>6, <2>1, <3>1
  <2>3. CASE repeated /\ ~broken
    <3>1. connection' = connection /\ lost' = lost  BY <1>3, <2>3 DEF Invalidated
    <3> QED  BY <1>6, <2>1, <3>1
  <2>4. CASE ~repeated
    <3>1. connection' = connection /\ (lost' = lost \cup {connection} \/ lost' = lost)  BY <1>2, <1>3, <2>4
    <3> QED  BY <1>6, <2>1, <3>1
  <2> QED  BY <2>2, <2>3, <2>4
<1>9. op'[c].on = 0 /\ op'[c].id <= Len(table')  BY <1>4, <1>6, <1>7 DEF OpIs
<1>10. \A d \in Callers : op'[d].on <= opened' /\ op'[d].id <= Len(table')
  BY <1>1, <1>2, <1>4, <1>6, <1>7, <1>9, SameTyped DEF OpIs
<1>11. DbTyped'
  <2>1. faults' \in 0 .. MaxFaults  BY <1>1, <1>2, DatabaseAssumption DEF DbTyped, Fail
  <2>2. op' \in [Callers -> Op] /\ connection' \in 0 .. opened  BY <1>2, <1>6, <1>7, <1>8 DEF OpIs
  <2> QED  BY <1>1, <1>2, <1>4, <1>6, <1>8, <1>10, <2>1, <2>2 DEF DbTyped
<1>12. ConnectionsOK'  BY <1>1, <1>2, <1>8 DEF ConnectionsOK
<1>13. CallerOK(c)'  BY <1>7 DEF CallerOK, OpIs, Holds, Sends, At
<1> QED  BY <1>5, <1>7, <1>11, <1>12, <1>13 DEF DbFormed, OpIs

LEMMA InitializeKeeps ==
  ASSUME DbFormed, Initialize, faults' = faults, opened = 0, ~closed, \A c \in Callers : op[c].stage = "idle"
  PROVE  DbFormed' /\ opened' = 1
<1>1. /\ connection' = 1 /\ opened' = 1 /\ lastval' = Append(lastval, 0)
      /\ UNCHANGED <<lost, lock, closing, closed, table, op, faults>> /\ DbTyped /\ ConnectionsOK
  BY DEF Initialize, DbFormed
<1>2. lastval \in Seq(Nat) /\ Len(lastval) = 0 /\ Len(table) \in Nat  BY <1>1 DEF DbTyped
<1>3. lastval' \in Seq(Nat) /\ Len(lastval') = 1 /\ lastval'[1] = 0  BY <1>1, <1>2, Appending
<1>4. \A c \in Callers : op[c].on <= 1 /\ op[c].id <= Len(table)
  <2> SUFFICES ASSUME NEW c \in Callers PROVE op[c].on <= 1 /\ op[c].id <= Len(table)  OBVIOUS
  <2>1. op[c] \in Op /\ op[c].on <= 0 /\ op[c].id <= Len(table)  BY <1>1 DEF DbTyped
  <2> QED  BY <2>1 DEF Op
<1>5. lost = {} /\ lost' = {}  BY <1>1 DEF DbTyped
<1>6. \A n \in 1 .. 1 : lastval'[n] <= Len(table)  BY <1>2, <1>3
<1>7. DbTyped'  BY <1>1, <1>3, <1>4, <1>5, <1>6 DEF DbTyped
<1>8. ConnectionsOK'  BY <1>1 DEF ConnectionsOK
<1>9. ASSUME NEW c \in Callers PROVE CallerOK(c)'
  BY <1>1, <1>9 DEF CallerOK, Holds, Sends, At
<1> QED  BY <1>1, <1>7, <1>8, <1>9 DEF DbFormed

LEMMA BeginCloseKeeps == ASSUME DbFormed, BeginClose PROVE DbFormed'
<1>1. closing' = TRUE /\ UNCHANGED <<connection, opened, lost, lastval, lock, closed, table, op, faults>>
  BY DEF BeginClose
<1>2. DbTyped'  BY <1>1 DEF DbFormed, DbTyped
<1>3. ConnectionsOK'  BY <1>1 DEF DbFormed, ConnectionsOK
<1>4. \A c \in Callers : CallerOK(c)'  BY <1>1, Unmoved
<1> QED  BY <1>2, <1>3, <1>4 DEF DbFormed

LEMMA EndCloseKeeps == ASSUME DbFormed, EndClose PROVE DbFormed'
<1>1. /\ closing /\ lock = Nobody /\ closed' /\ connection' = None
      /\ lost' = IF connection = None THEN lost ELSE lost \cup {connection}
      /\ UNCHANGED <<opened, lastval, lock, closing, table, op, faults>>
  BY DEF EndClose
<1>2. DbTyped /\ ConnectionsOK  BY DEF DbFormed
<1>3. DbTyped'
  <2>1. lost' \subseteq 1 .. opened  BY <1>1, <1>2 DEF DbTyped, None
  <2>2. connection' \in 0 .. opened  BY <1>1, <1>2 DEF DbTyped, None
  <2>3. closed' \in BOOLEAN  BY DEF EndClose
  <2> QED  BY <1>1, <1>2, <2>1, <2>2, <2>3 DEF DbTyped
<1>4. ConnectionsOK'  BY <1>1, <1>2 DEF ConnectionsOK, None
<1>5. ASSUME NEW c \in Callers PROVE CallerOK(c)'
  <2>1. c # Nobody  BY DatabaseAssumption DEF Nobody
  <2> QED  BY <1>1, <2>1, Bystander
<1> QED  BY <1>3, <1>4, <1>5 DEF DbFormed

LEMMA DbInitFormed == DbInit => DbFormed
<1> SUFFICES ASSUME DbInit PROVE DbFormed  OBVIOUS
<1>1. op = [c \in Callers |-> Idle] /\ \A c \in Callers : op[c] = Idle  BY DEF DbInit
<1>2. DbTyped
  <2>1. op \in [Callers -> Op] /\ \A c \in Callers : op[c].on = 0 /\ op[c].id = 0  BY <1>1, IdleFields
  <2>2. opened = 0 /\ connection = 0 /\ lost = {} /\ lastval = <<>> /\ table = <<>> /\ faults = 0 /\ lock = Nobody
        /\ closing = FALSE /\ closed = FALSE
    BY DEF DbInit, None
  <2>3. lastval \in Seq(Nat) /\ Len(lastval) = 0 /\ table \in Seq(Callers \cup {Nobody}) /\ Len(table) = 0  BY <2>2
  <2>4. faults \in 0 .. MaxFaults  BY <2>2, DatabaseAssumption
  <2>5. opened \in Nat /\ connection \in 0 .. opened /\ lost \subseteq 1 .. opened  BY <2>2
  <2>6. \A n \in 1 .. opened : lastval[n] <= Len(table)  BY <2>2
  <2>7. \A c \in Callers : op[c].on <= opened /\ op[c].id <= Len(table)  BY <2>1, <2>2, <2>3
  <2>8. closing \in BOOLEAN /\ closed \in BOOLEAN /\ lock \in Callers \cup {Nobody}  BY <2>2
  <2>9. Len(lastval) = opened  BY <2>2, <2>3
  <2> HIDE <2>2
  <2> QED  BY <2>1, <2>3, <2>4, <2>5, <2>6, <2>7, <2>8, <2>9 DEF DbTyped
<1>3. ConnectionsOK  BY DEF DbInit, ConnectionsOK
<1>4. \A c \in Callers : CallerOK(c)  BY <1>1, IdleFields DEF CallerOK, Holds, Sends, At
<1> QED  BY <1>2, <1>3, <1>4 DEF DbFormed

LEMMA DbUnchanged == DbFormed /\ UNCHANGED dbVars => DbFormed'
BY DEF DbFormed, dbVars, DbTyped, ConnectionsOK, CallerOK, Holds, Sends, At, Open, OwnRow

LEMMA DbFollows == DbFormed => OwnRowId /\ NoConnectionLeft
<1> SUFFICES ASSUME DbFormed PROVE OwnRowId /\ NoConnectionLeft  OBVIOUS
<1>1. OwnRowId
  <2>1. DOMAIN table = 1 .. Len(table)  BY DEF DbFormed, DbTyped
  <2> QED  BY <2>1 DEF DbFormed, CallerOK, OwnRowId, OwnRow
<1>2. NoConnectionLeft  BY DEF DbFormed, DbTyped, ConnectionsOK, NoConnectionLeft, None
<1> QED  BY <1>1, <1>2

-----------------------------------------------------------------------------
(* Starting and stopping.                                                  *)

LifeTyped ==
    /\ main \in Services .. Exit /\ cogs \subseteq Working
    /\ bot \in {"none", "made", "running", "closed"} /\ timers \subseteq Timers
    /\ shutdown \in [Stops -> 0 .. Over + 1] /\ holder \in Stops \cup {Nobody}
    /\ complete \in BOOLEAN /\ lifeFaults \in 0 .. MaxLifeFaults

\* Until the services are there nothing runs, and until the cogs are nothing is stopped; the run of
\* _shutdown that is under way holds the lock.
Fresh == opened = 0 /\ ~closing /\ bot = "none" /\ timers = {} /\ \A c \in Callers : At(c, "idle")
Ordering ==
    /\ main < Running => holder = Nobody /\ ~complete /\ \A s \in Stops : shutdown[s] = 0
    /\ main = Services => Fresh
    /\ \A s \in Stops : holder = s <=> shutdown[s] \in 1 .. Over

\* What a run of _shutdown that no module has failed leaves behind it, step by step.
StopOK(s) ==
    /\ shutdown[s] > Len(Modules) + 1 => bot = "closed"
    /\ shutdown[s] >= Over => closed
    /\ Done(s) => complete
Tidy ==
    lifeFaults = 0 =>
        /\ main # Services => opened # 0 /\ bot # "none"
        /\ \A s \in Stops : StopOK(s)
        /\ complete => bot = "closed" /\ closed
        /\ main = Exit => Done("finally")

LifeInv == LifeTyped /\ Ordering /\ Tidy

LEMMA StoppingIs ==
  /\ Len(Modules) \in Nat /\ Modules \in Seq(STRING) /\ Over = Len(Modules) + 3
  /\ Running = Len(Modules) + 1 /\ Finally = Len(Modules) + 2 /\ Exit = Len(Modules) + 3
  /\ DOMAIN Stopping = 1 .. Len(Modules) + 2 /\ Stopping[Len(Modules) + 1] = "bot"
  /\ Stopping[Len(Modules) + 2] = "container" /\ \A i \in 1 .. Len(Modules) : Stopping[i] = Modules[i]
  /\ \A i \in 1 .. Len(Modules) : Modules[i] \notin {"bot", "container", "none"}
<1>1. Modules \in Seq(STRING) /\ Len(Modules) \in Nat  BY LifecycleAssumption
<1>2. \A i \in 1 .. Len(Modules) : Modules[i] \in Range(Modules)  BY <1>1 DEF Range
<1>3. \A i \in 1 .. Len(Modules) : Modules[i] \notin {"bot", "container", "none"}  BY <1>2, LifecycleAssumption
<1>4. /\ DOMAIN Stopping = 1 .. Len(Modules) + 2 /\ Len(Stopping) = Len(Modules) + 2
      /\ Stopping[Len(Modules) + 1] = "bot" /\ Stopping[Len(Modules) + 2] = "container"
      /\ \A i \in 1 .. Len(Modules) : Stopping[i] = Modules[i]
  BY <1>1 DEF Stopping
<1> QED  BY <1>1, <1>3, <1>4 DEF Over, Running, Finally, Exit

LEMMA StepIs ==
  ASSUME LifeInv, NEW s \in Stops
  PROVE  /\ Step(s) \in Range(Modules) => holder = s /\ shutdown[s] \in 1 .. Len(Modules)
         /\ Step(s) = "bot" => holder = s /\ shutdown[s] = Len(Modules) + 1
         /\ Step(s) = "container" => holder = s /\ shutdown[s] = Len(Modules) + 2
<1>1. Step(s) # "none" => /\ holder = s /\ shutdown[s] \in 1 .. Len(Modules) + 2
                          /\ Step(s) = Stopping[shutdown[s]]
  BY StoppingIs DEF Step
<1>2. \A n \in Range(Modules) : n \notin {"bot", "container", "none"}  BY LifecycleAssumption
<1>3. shutdown[s] \in 1 .. Len(Modules) + 2 =>
        shutdown[s] \in 1 .. Len(Modules) \/ shutdown[s] = Len(Modules) + 1 \/ shutdown[s] = Len(Modules) + 2
  BY StoppingIs
<1> QED  BY <1>1, <1>2, <1>3, StoppingIs

\* One run of _shutdown moves: what it needs to do so.
Proceed(s, n) ==
    /\ n \in 1 .. Over + 1 /\ shutdown' = [shutdown EXCEPT ![s] = n]
    /\ main >= Running /\ main # Exit /\ main' = main
    /\ lifeFaults' \in 0 .. MaxLifeFaults /\ lifeFaults <= lifeFaults'
    /\ cogs' \subseteq Working /\ timers' \subseteq Timers /\ complete' \in BOOLEAN
    /\ bot' \in {bot, "closed"}
    /\ opened <= opened' /\ opened \in Nat /\ opened' \in Nat /\ (closed => closed')
    /\ (n = Over + 1 => holder' = Nobody) /\ (n # Over + 1 => holder' = s) /\ holder \in {s, Nobody}
    /\ lifeFaults' = 0 => StopOK(s)' /\ (complete' => bot' = "closed" /\ closed') /\ (complete => complete')

LEMMA Proceeds == ASSUME LifeInv, NEW s \in Stops, NEW n, Proceed(s, n) PROVE LifeInv'
<1>1. /\ LifeTyped /\ Ordering /\ Tidy /\ shutdown'[s] = n /\ main # Services
      /\ \A t \in Stops \ {s} : shutdown'[t] = shutdown[t]
  BY StoppingIs DEF LifeInv, LifeTyped, Services, Proceed
<1>2. s # Nobody  BY LifecycleAssumption DEF Stops, Nobody
<1>3. LifeTyped'
  <2>1. shutdown' \in [Stops -> 0 .. Over + 1]  BY <1>1, StoppingIs DEF LifeTyped, Proceed
  <2> QED  BY <1>1, <2>1 DEF LifeTyped, Proceed
<1>4. Ordering'
  <2>1. ~(main' < Running) /\ main' # Services  BY <1>1, StoppingIs DEF LifeTyped, Services, Proceed
  <2>2. ASSUME NEW t \in Stops PROVE (holder = t <=> shutdown[t] \in 1 .. Over)'
    <3>1. CASE t = s  BY <1>1, <1>2, <3>1, StoppingIs DEF Proceed
    <3>2. CASE t # s
      <4>1. holder # t /\ holder' # t  BY <1>2, <3>2, LifecycleAssumption DEF Stops, Nobody, Proceed
      <4>2. shutdown[t] \notin 1 .. Over /\ shutdown'[t] = shutdown[t]  BY <1>1, <3>2, <4>1 DEF Ordering
      <4> QED  BY <4>1, <4>2 DEF Over
    <3> QED  BY <3>1, <3>2
  <2> QED  BY <2>1, <2>2 DEF Ordering
<1>5. Tidy'
  <2> SUFFICES ASSUME lifeFaults' = 0
               PROVE  /\ main' # Services => opened' # 0 /\ bot' # "none"
                      /\ \A t \in Stops : StopOK(t)'
                      /\ complete' => bot' = "closed" /\ closed'
                      /\ main' = Exit => Done("finally")'
    BY DEF Tidy
  <2>1. lifeFaults = 0  BY <1>1 DEF LifeTyped, Proceed
  <2>2. /\ opened # 0 /\ bot # "none" /\ \A t \in Stops : StopOK(t)
        /\ main = Exit => Done("finally")
    BY <1>1, <2>1 DEF Tidy
  <2>3. ASSUME NEW t \in Stops PROVE StopOK(t)'
    <3>1. CASE t = s  BY <3>1 DEF StopOK, Done, Proceed
    <3>2. CASE t # s  BY <1>1, <2>2, <3>2 DEF StopOK, Done, Over, Proceed
    <3> QED  BY <3>1, <3>2
  <2> QED  BY <1>1, <2>2, <2>3 DEF Proceed
<1> QED  BY <1>3, <1>4, <1>5 DEF LifeInv

LEMMA StoppingRuns == ASSUME LifeInv, NEW s \in Stops, shutdown[s] # 0
  PROVE main >= Running /\ shutdown[s] \in 1 .. Over + 1 /\ s # Nobody
<1>1. LifeTyped /\ Ordering /\ s # Nobody  BY LifecycleAssumption DEF LifeInv, Stops, Nobody
<1>2. main >= Running  BY <1>1, StoppingIs DEF Ordering, LifeTyped, Services
<1>3. shutdown[s] \in 1 .. Over + 1  BY <1>1, StoppingIs DEF LifeTyped
<1> QED  BY <1>1, <1>2, <1>3

LEMMA BeginsKeeps ==
  ASSUME LifeInv, DbFormed, NEW s \in Stops, Begins(s)
  PROVE  LifeInv'
<1>1. /\ shutdown[s] = 0 /\ main \in {Running, Finally} /\ holder = Nobody
      /\ UNCHANGED <<dbVars, main, cogs, bot, timers, complete, lifeFaults>>
  BY DEF Begins, Waits
<1>2. /\ LifeTyped /\ Ordering /\ Tidy /\ opened' = opened /\ opened \in Nat /\ closed' = closed
      /\ main >= Running /\ main # Exit
  BY <1>1, StoppingIs DEF LifeInv, DbFormed, DbTyped, dbVars
<1>3. CASE complete /\ shutdown' = [shutdown EXCEPT ![s] = Over + 1] /\ holder' = holder
  <2>1. Over + 1 \in 1 .. Over + 1  BY StoppingIs
  <2>2. shutdown'[s] = Over + 1  BY <1>2, <1>3 DEF LifeTyped
  <2>3. lifeFaults = 0 => bot = "closed" /\ closed  BY <1>2, <1>3 DEF Tidy
  <2>4. lifeFaults' = 0 => StopOK(s)' /\ (complete' => bot' = "closed" /\ closed')
    BY <1>1, <1>2, <1>3, <2>2, <2>3 DEF StopOK, Done
  <2>5. /\ lifeFaults' \in 0 .. MaxLifeFaults /\ lifeFaults <= lifeFaults' /\ cogs' \subseteq Working
        /\ timers' \subseteq Timers /\ complete' \in BOOLEAN
    BY <1>1, <1>2 DEF LifeTyped
  <2>9. Proceed(s, Over + 1)  BY <1>1, <1>2, <1>3, <2>1, <2>4, <2>5 DEF Proceed
  <2> QED  BY <2>9, Proceeds
<1>4. CASE ~complete /\ Steps(s) /\ holder' = s
  <2>1. 1 \in 1 .. Over + 1 /\ Over # 0 /\ shutdown' = [shutdown EXCEPT ![s] = 1] /\ shutdown'[s] = 1
    BY <1>1, <1>2, <1>4, StoppingIs DEF LifeTyped, Steps
  <2>2. lifeFaults' = 0 => StopOK(s)' /\ (complete' => bot' = "closed" /\ closed')
    BY <1>1, <1>2, <1>4, <2>1, StoppingIs DEF StopOK, Done, Over
  <2>5. /\ lifeFaults' \in 0 .. MaxLifeFaults /\ lifeFaults <= lifeFaults' /\ cogs' \subseteq Working
        /\ timers' \subseteq Timers /\ complete' \in BOOLEAN
    BY <1>1, <1>2 DEF LifeTyped
  <2>6. 1 # Over + 1  BY <2>1, StoppingIs
  <2>9. Proceed(s, 1)  BY <1>1, <1>2, <1>4, <2>1, <2>2, <2>5, <2>6 DEF Proceed
  <2> QED  BY <2>9, Proceeds
<1> QED  BY <1>1, <1>3, <1>4 DEF Begins

LEMMA StopModuleKeeps ==
  ASSUME LifeInv, DbFormed, NEW s \in Stops, main # Exit, StopModule(s)
  PROVE  LifeInv'
<1>1. /\ holder = s /\ shutdown[s] \in 1 .. Len(Modules) /\ timers' \in {timers, {}}
      /\ UNCHANGED <<dbVars, main, cogs, bot, complete>>
  BY StepIs DEF StopModule
<1>2. /\ LifeTyped /\ Ordering /\ Tidy /\ opened' = opened /\ opened \in Nat /\ closed' = closed
      /\ s # Nobody /\ main >= Running
  <2>1. shutdown[s] # 0  BY <1>1, StoppingIs
  <2> QED  BY <1>1, <2>1, StoppingRuns DEF LifeInv, DbFormed, DbTyped, dbVars
<1>3. CASE Steps(s) /\ UNCHANGED <<holder, lifeFaults>>
  <2> DEFINE n == shutdown[s] + 1
  <2>1. n \in 1 .. Over + 1 /\ n # Over + 1 /\ shutdown' = [shutdown EXCEPT ![s] = n] /\ shutdown'[s] = n
        /\ ~(n > Len(Modules) + 1) /\ ~(n >= Over) /\ ~(n > Over)
    BY <1>1, <1>2, <1>3, StoppingIs DEF LifeTyped, Steps
  <2> HIDE DEF n
  <2>2. lifeFaults' = 0 => StopOK(s)' /\ (complete' => bot' = "closed" /\ closed')
    BY <1>1, <1>2, <1>3, <2>1 DEF StopOK, Done, Over, Tidy
  <2>3. /\ lifeFaults' \in 0 .. MaxLifeFaults /\ lifeFaults <= lifeFaults' /\ cogs' \subseteq Working
        /\ timers' \subseteq Timers /\ complete' \in BOOLEAN
    BY <1>1, <1>2, <1>3 DEF LifeTyped
  <2>9. Proceed(s, n)  BY <1>1, <1>2, <1>3, <2>1, <2>2, <2>3 DEF Proceed
  <2> QED  BY <2>9, Proceeds
<1>4. CASE LifeFail /\ shutdown' = [shutdown EXCEPT ![s] = Over + 1] /\ holder' = Nobody
  <2>1. Over + 1 \in 1 .. Over + 1  BY StoppingIs
  <2>2. /\ lifeFaults' \in 0 .. MaxLifeFaults /\ lifeFaults <= lifeFaults' /\ lifeFaults' # 0
        /\ cogs' \subseteq Working /\ timers' \subseteq Timers /\ complete' \in BOOLEAN
    BY <1>1, <1>2, <1>4, LifecycleAssumption DEF LifeTyped, LifeFail
  <2>9. Proceed(s, Over + 1)  BY <1>1, <1>2, <1>4, <2>1, <2>2 DEF Proceed
  <2> QED  BY <2>9, Proceeds
<1> QED  BY <1>3, <1>4 DEF StopModule

LEMMA CloseBotKeeps ==
  ASSUME LifeInv, DbFormed, NEW s \in Stops, main # Exit, CloseBot(s)
  PROVE  LifeInv'
<1>1. /\ holder = s /\ shutdown[s] = Len(Modules) + 1 /\ Steps(s) /\ bot' = IF Closes THEN "closed" ELSE bot
      /\ UNCHANGED <<dbVars, main, cogs, timers, holder, complete>> /\ (lifeFaults' = lifeFaults \/ LifeFail)
  BY StepIs DEF CloseBot
<1>0. lifeFaults' \in 0 .. MaxLifeFaults /\ lifeFaults <= lifeFaults' /\ (lifeFaults' = 0 => lifeFaults = 0)
  BY <1>1, LifecycleAssumption DEF LifeInv, LifeTyped, LifeFail
<1>2. /\ LifeTyped /\ Ordering /\ Tidy /\ opened' = opened /\ opened \in Nat /\ closed' = closed
      /\ s # Nobody /\ main >= Running
  <2>1. shutdown[s] # 0  BY <1>1, StoppingIs
  <2> QED  BY <1>1, <2>1, StoppingRuns DEF LifeInv, DbFormed, DbTyped, dbVars
<1> DEFINE n == Len(Modules) + 2
<1>3. n \in 1 .. Over + 1 /\ n # Over + 1 /\ shutdown' = [shutdown EXCEPT ![s] = n] /\ shutdown'[s] = n
      /\ ~(n >= Over) /\ ~(n > Over) /\ main # Services
  BY <1>1, <1>2, StoppingIs DEF LifeTyped, Steps, Services
<1> HIDE DEF n
<1>4. lifeFaults = 0 => bot' = "closed"  BY <1>1, <1>2, <1>3 DEF Tidy, LifeTyped, Closes
<1>5. lifeFaults' = 0 => StopOK(s)' /\ (complete' => bot' = "closed" /\ closed')
  BY <1>0, <1>1, <1>2, <1>3, <1>4 DEF StopOK, Done, Over, Tidy
<1>6. /\ lifeFaults' \in 0 .. MaxLifeFaults /\ lifeFaults <= lifeFaults' /\ cogs' \subseteq Working
      /\ timers' \subseteq Timers /\ complete' \in BOOLEAN /\ bot' \in {bot, "closed"}
  BY <1>0, <1>1, <1>2 DEF LifeTyped
<1>9. Proceed(s, n)  BY <1>1, <1>2, <1>3, <1>5, <1>6 DEF Proceed
<1> QED  BY <1>9, Proceeds

LEMMA CompletesKeeps ==
  ASSUME LifeInv, DbFormed, NEW s \in Stops, main # Exit, Completes(s)
  PROVE  LifeInv'
<1>1. /\ holder = s /\ shutdown[s] = Over /\ Steps(s) /\ complete' = TRUE /\ holder' = Nobody
      /\ UNCHANGED <<dbVars, main, cogs, bot, timers, lifeFaults>>
  BY DEF Completes
<1>2. /\ LifeTyped /\ Ordering /\ Tidy /\ opened' = opened /\ opened \in Nat /\ closed' = closed
      /\ s # Nobody /\ main >= Running
  <2>1. shutdown[s] # 0  BY <1>1, StoppingIs
  <2> QED  BY <1>1, <2>1, StoppingRuns DEF LifeInv, DbFormed, DbTyped, dbVars
<1> DEFINE n == Over + 1
<1>3. n \in 1 .. Over + 1 /\ shutdown' = [shutdown EXCEPT ![s] = n]
  BY <1>1, <1>2, StoppingIs DEF LifeTyped, Steps
<1>4. lifeFaults = 0 => bot = "closed" /\ closed
  BY <1>1, <1>2, StoppingIs DEF Tidy, StopOK
<1>5. lifeFaults' = 0 => StopOK(s)' /\ (complete' => bot' = "closed" /\ closed')
  BY <1>1, <1>2, <1>4 DEF StopOK, Done
<1>6. /\ lifeFaults' \in 0 .. MaxLifeFaults /\ lifeFaults <= lifeFaults' /\ cogs' \subseteq Working
      /\ timers' \subseteq Timers /\ complete' \in BOOLEAN
  BY <1>1, <1>2 DEF LifeTyped
<1>9. Proceed(s, n)  BY <1>1, <1>2, <1>3, <1>5, <1>6 DEF Proceed
<1> QED  BY <1>9, Proceeds

\* Nothing of the process moves, but what the database manager does.
LEMMA LifeUnmoved ==
  ASSUME LifeInv, UNCHANGED lifeVars, opened \in Nat, opened' \in Nat, opened <= opened', closed => closed',
         main = Services => Fresh'
  PROVE  LifeInv'
<1>1. LifeTyped' /\ Ordering'  BY DEF LifeInv, LifeTyped, Ordering, lifeVars
<1>2. Tidy'
  <2>1. UNCHANGED <<main, bot, shutdown, complete, lifeFaults>> /\ Tidy  BY DEF LifeInv, lifeVars
  <2> QED  BY <2>1 DEF Tidy, StopOK, Done
<1> QED  BY <1>1, <1>2 DEF LifeInv

LEMMA CloseDatabaseKeeps ==
  ASSUME LifeInv, DbFormed, NEW s \in Stops, main # Exit, CloseDatabase(s)
  PROVE  LifeInv'
<1>1. /\ holder = s /\ shutdown[s] = Len(Modules) + 2
      /\ UNCHANGED <<main, cogs, bot, timers, holder, complete>>
  BY StepIs DEF CloseDatabase
<1>2. /\ LifeTyped /\ Ordering /\ Tidy /\ opened \in Nat /\ s # Nobody /\ main >= Running /\ main # Services
  <2>1. shutdown[s] # 0  BY <1>1, StoppingIs
  <2> QED  BY <1>1, <2>1, StoppingRuns, StoppingIs DEF LifeInv, DbFormed, DbTyped, Services
<1>3. opened' = opened /\ (closed => closed')
  BY <1>1 DEF CloseDatabase, BeginClose, EndClose, dbVars
<1>4. CASE BeginClose /\ shutdown' = shutdown /\ lifeFaults' = lifeFaults
  BY <1>1, <1>2, <1>3, <1>4, LifeUnmoved DEF lifeVars
<1>5. CASE Steps(s) /\ ((lifeFaults' = lifeFaults /\ (closed' \/ opened = 0)) \/ LifeFail)
  <2>0. /\ lifeFaults' \in 0 .. MaxLifeFaults /\ lifeFaults <= lifeFaults'
        /\ lifeFaults' = 0 => lifeFaults = 0 /\ (closed' \/ opened = 0)
    BY <1>2, <1>5, LifecycleAssumption DEF LifeTyped, LifeFail
  <2> DEFINE n == Over
  <2>1. n \in 1 .. Over + 1 /\ n # Over + 1 /\ shutdown' = [shutdown EXCEPT ![s] = n] /\ shutdown'[s] = n
        /\ ~(n > Over)
    BY <1>1, <1>2, <1>5, StoppingIs DEF LifeTyped, Steps
  <2>2. lifeFaults' = 0 => closed' /\ bot = "closed"  BY <1>1, <1>2, <2>0 DEF Tidy, StopOK
  <2>5. lifeFaults' = 0 => StopOK(s)' /\ (complete' => bot' = "closed" /\ closed')
    BY <1>1, <2>1, <2>2 DEF StopOK, Done, Over
  <2>6. /\ lifeFaults' \in 0 .. MaxLifeFaults /\ lifeFaults <= lifeFaults' /\ cogs' \subseteq Working
        /\ timers' \subseteq Timers /\ complete' \in BOOLEAN
    BY <1>1, <1>2, <2>0 DEF LifeTyped
  <2>9. Proceed(s, n)  BY <1>1, <1>2, <1>3, <2>1, <2>5, <2>6 DEF Proceed
  <2> QED  BY <2>9, Proceeds
<1> QED  BY <1>4, <1>5 DEF CloseDatabase, EndClose, dbVars

\* What the operations of the database manager leave to the process.
LEMMA OperationGrows ==
  ASSUME DbFormed, NEW c \in Callers, Operation(c) \/ Break(c) \/ Call(c)
  PROVE  opened \in Nat /\ opened' \in Nat /\ opened <= opened' /\ closed' = closed /\ (Call(c) \/ ~At(c, "idle"))
<1>1. opened \in Nat  BY DEF DbFormed, DbTyped
<1>2. CASE Operation(c)
  BY <1>1, <1>2 DEF Operation, Acquire, Connect, Execute, LastVal, Again, At
<1>3. CASE Break(c)  BY <1>1, <1>3 DEF Break, At
<1>4. CASE Call(c)
  <2>1. opened' = opened /\ closed' = closed  BY <1>4 DEF Call
  <2> QED  BY <1>1, <1>4, <2>1
<1> QED  BY <1>2, <1>3, <1>4

LEMMA StatementKeeps ==
  ASSUME LifeInv, DbFormed, NEW c \in Callers, Handler(c) \/ Statement(c) \/ Broken(c)
  PROVE  LifeInv' /\ DbFormed'
<1>1. UNCHANGED lifeVars /\ (Operation(c) \/ Break(c) \/ (Call(c) /\ bot = "running"))
  <2>1. CASE Handler(c)  BY <2>1 DEF Handler
  <2>2. CASE Statement(c)  BY <2>2 DEF Statement
  <2>3. CASE Broken(c)  BY <2>3 DEF Broken
  <2> QED  BY <2>1, <2>2, <2>3
<1>2. opened \in Nat /\ opened' \in Nat /\ opened <= opened' /\ closed' = closed /\ (Call(c) \/ ~At(c, "idle"))
  BY <1>1, OperationGrows
<1>3. main = Services => Fresh  BY DEF LifeInv, Ordering
<1>4. main # Services
  <2>1. Operation(c) \/ Break(c) => ~At(c, "idle")
    BY DEF Operation, Acquire, Connect, Execute, LastVal, Again, Break, At
  <2> QED  BY <1>1, <1>3, <2>1 DEF Fresh
<1>5. LifeInv'  BY <1>1, <1>2, <1>4, LifeUnmoved
<1>6. DbFormed'
  BY <1>1, CallKeeps, AcquireKeeps, ConnectKeeps, ExecuteKeeps, LastValKeeps, AgainKeeps, BreakKeeps DEF Operation
<1> QED  BY <1>5, <1>6

LEMMA ServeKeeps ==
  ASSUME LifeInv, DbFormed, Serve
  PROVE  LifeInv' /\ DbFormed'
<1>1. /\ main = Services /\ UNCHANGED <<cogs, timers, shutdown, holder, complete>>
      /\ LifeTyped /\ Ordering /\ Tidy /\ Fresh /\ opened = 0 /\ ~closed
  BY DEF Serve, LifeInv, Ordering, DbFormed, ConnectionsOK, Fresh
<1>2. main < Running /\ holder = Nobody /\ ~complete /\ \A s \in Stops : shutdown[s] = 0
  BY <1>1, StoppingIs DEF Ordering, Services
<1>3. \A s \in Stops : s # Nobody /\ 0 \notin 1 .. Over  BY LifecycleAssumption DEF Stops, Nobody
<1>4. CASE main' = 1 /\ bot' = "made" /\ Initialize /\ UNCHANGED <<faults, lifeFaults>>
  <2>1. DbFormed' /\ opened' = 1  BY <1>1, <1>4, InitializeKeeps DEF Fresh, At
  <2>2. LifeTyped'  BY <1>1, <1>4, StoppingIs DEF LifeTyped, Services
  <2>3. Ordering'  BY <1>1, <1>2, <1>3, <1>4, StoppingIs DEF Ordering, Services
  <2>4. Tidy'
    <3>1. main' # Exit /\ opened' # 0 /\ bot' # "none" /\ ~complete'  BY <1>1, <1>2, <1>4, <2>1, StoppingIs
    <3>2. \A s \in Stops : StopOK(s)'  BY <1>1, <1>2, StoppingIs DEF StopOK, Done
    <3> QED  BY <3>1, <3>2 DEF Tidy
  <2> QED  BY <2>1, <2>2, <2>3, <2>4 DEF LifeInv
<1>5. CASE LifeFail /\ main' = Finally /\ UNCHANGED <<bot, dbVars>>
  <2>1. DbFormed'  BY <1>5, DbUnchanged
  <2>2. LifeTyped'  BY <1>1, <1>5, StoppingIs, LifecycleAssumption DEF LifeTyped, Services, LifeFail
  <2>3. Ordering'  BY <1>1, <1>2, <1>3, <1>5, StoppingIs DEF Ordering, Services
  <2>4. Tidy'  BY <1>1, <1>5 DEF Tidy, LifeFail, LifeTyped
  <2> QED  BY <2>1, <2>2, <2>3, <2>4 DEF LifeInv
<1> QED  BY <1>4, <1>5 DEF Serve

LEMMA RegisterKeeps ==
  ASSUME LifeInv, DbFormed, Register
  PROVE  LifeInv'
<1>1. /\ main \in 1 .. Len(Modules) /\ UNCHANGED <<dbVars, timers, shutdown, holder, complete>>
      /\ LifeTyped /\ Ordering /\ Tidy
  BY StoppingIs DEF Register, LifeInv
<1>2. /\ opened' = opened /\ closed' = closed /\ main \in Nat /\ main < Running /\ main # Services /\ Len(Modules) \in Nat
      /\ holder = Nobody /\ ~complete /\ \A s \in Stops : shutdown[s] = 0
  BY <1>1, StoppingIs DEF Ordering, Services, dbVars
<1>3. \A s \in Stops : s # Nobody /\ 0 \notin 1 .. Over  BY LifecycleAssumption DEF Stops, Nobody
<1>4. /\ main' \in {main + 1, Finally} /\ bot' \in {bot, "running"} /\ (lifeFaults' = lifeFaults \/ LifeFail)
      /\ cogs' \subseteq Working
  <2>1. cogs \subseteq Working  BY <1>1 DEF LifeTyped
  <2> QED  BY <1>1, <2>1 DEF Register
<1>5. main' \in 1 .. Exit /\ main' # Services /\ main' # Exit  BY <1>1, <1>2, <1>4, StoppingIs DEF Services
<1>6. LifeTyped'
  <2>1. lifeFaults' \in 0 .. MaxLifeFaults  BY <1>1, <1>4, LifecycleAssumption DEF LifeTyped, LifeFail
  <2> QED  BY <1>1, <1>4, <1>5, <2>1, StoppingIs DEF LifeTyped, Services
<1>7. Ordering'  BY <1>1, <1>2, <1>3, <1>5 DEF Ordering
<1>8. Tidy'
  <2>1. \A s \in Stops : StopOK(s)'  BY <1>1, <1>2, StoppingIs DEF StopOK, Done
  <2>2. lifeFaults' = 0 => lifeFaults = 0  BY <1>1, <1>4 DEF LifeTyped, LifeFail
  <2> QED  BY <1>1, <1>2, <1>4, <1>5, <2>1, <2>2 DEF Tidy
<1> QED  BY <1>6, <1>7, <1>8 DEF LifeInv

\* run() comes to the finally clause, and to its end.
LEMMA RunEndsKeeps ==
  ASSUME LifeInv, DbFormed, Ended \/ Leave
  PROVE  LifeInv'
<1>1. /\ UNCHANGED <<dbVars, cogs, bot, timers, shutdown, holder, complete, lifeFaults>>
      /\ LifeTyped /\ Ordering /\ Tidy /\ main >= Running /\ main # Services /\ main' > Running /\ main' # Services
      /\ main' \in Services .. Exit /\ (main' = Exit => Done("finally")')
  BY StoppingIs DEF Ended, Leave, LifeInv, Services, Done, Over
<1>2. LifeTyped'  BY <1>1 DEF LifeTyped
<1>3. Ordering'  BY <1>1, StoppingIs DEF Ordering
<1>4. Tidy'  BY <1>1 DEF Tidy, StopOK, Done, dbVars
<1> QED  BY <1>2, <1>3, <1>4 DEF LifeInv

LEMMA TimersKeep ==
  ASSUME LifeInv, DbFormed, \/ \E t \in Timers : RoomTimer(t)
                            \/ \E c \in Callers : \E t \in Timers : Fires(t, c)
  PROVE  LifeInv' /\ DbFormed'
<1>1. LifeTyped /\ Ordering /\ Tidy  BY DEF LifeInv
<1>2. /\ UNCHANGED <<main, cogs, bot, shutdown, holder, complete, lifeFaults>> /\ timers' \subseteq Timers
      /\ main # Services /\ opened \in Nat /\ opened' \in Nat /\ opened <= opened' /\ closed' = closed /\ DbFormed'
  <2>1. CASE \E t \in Timers : RoomTimer(t)
    <3>1. opened \in Nat /\ UNCHANGED dbVars /\ timers' \subseteq Timers /\ bot = "running"
          /\ UNCHANGED <<main, cogs, bot, shutdown, holder, complete, lifeFaults>>
      BY <1>1, <2>1 DEF RoomTimer, DbFormed, DbTyped, LifeTyped
    <3> QED  BY <1>1, <3>1, DbUnchanged DEF dbVars, Ordering, Fresh
  <2>2. CASE \E c \in Callers : \E t \in Timers : Fires(t, c)
    <3>1. PICK c \in Callers, t \in Timers : Fires(t, c)  BY <2>2
    <3>2. /\ t \in timers /\ Call(c) /\ timers' \subseteq Timers
          /\ UNCHANGED <<main, cogs, bot, shutdown, holder, complete, lifeFaults>>
      BY <1>1, <3>1 DEF Fires, LifeTyped
    <3> QED  BY <1>1, <3>2, CallKeeps, OperationGrows DEF Ordering, Fresh
  <2> QED  BY <2>1, <2>2
<1>3. LifeTyped'  BY <1>1, <1>2 DEF LifeTyped
<1>4. Ordering'  BY <1>1, <1>2 DEF Ordering
<1>5. Tidy'  BY <1>1, <1>2 DEF Tidy, StopOK, Done
<1> QED  BY <1>2, <1>3, <1>4, <1>5 DEF LifeInv

LEMMA DatabaseClosing ==
  ASSUME DbFormed, NEW s \in Stops, CloseDatabase(s)
  PROVE  DbFormed'
BY BeginCloseKeeps, EndCloseKeeps, DbUnchanged DEF CloseDatabase

LEMMA ProcessStep == ASSUME DbFormed, LifeInv, [Next]_vars PROVE DbFormed' /\ LifeInv'
<1>1. CASE Serve  BY <1>1, ServeKeeps
<1>2. CASE Register  BY <1>2, RegisterKeeps, DbUnchanged DEF Register
<1>3. CASE Ended \/ Leave  BY <1>3, RunEndsKeeps, DbUnchanged DEF Ended, Leave
<1>4. CASE \E c \in Callers : Handler(c) \/ Statement(c) \/ Broken(c)  BY <1>4, StatementKeeps
<1>5. CASE \/ \E t \in Timers : RoomTimer(t)
           \/ \E c \in Callers : \E t \in Timers : Fires(t, c)
  BY <1>5, TimersKeep
<1>6. CASE Commands \/ UNCHANGED vars
  <2>1. UNCHANGED <<dbVars, lifeVars>>  BY <1>6 DEF Commands, vars
  <2>2. opened \in Nat /\ opened' = opened /\ closed' = closed /\ (main = Services => Fresh')
    BY <2>1 DEF DbFormed, DbTyped, dbVars, LifeInv, Ordering, Fresh, At, lifeVars
  <2> QED  BY <2>1, <2>2, LifeUnmoved, DbUnchanged
<1>7. ASSUME NEW s \in Stops, Begins(s) PROVE DbFormed' /\ LifeInv'
  BY <1>7, BeginsKeeps, DbUnchanged DEF Begins
<1>8. ASSUME NEW s \in Stops, Stop(s) PROVE DbFormed' /\ LifeInv'
  <2>1. CASE StopModule(s)  BY <1>8, <2>1, StopModuleKeeps, DbUnchanged DEF Stop, StopModule
  <2>2. CASE CloseBot(s)  BY <1>8, <2>2, CloseBotKeeps, DbUnchanged DEF Stop, CloseBot
  <2>3. CASE CloseDatabase(s)  BY <1>8, <2>3, CloseDatabaseKeeps, DatabaseClosing DEF Stop
  <2>4. CASE Completes(s)  BY <1>8, <2>4, CompletesKeeps, DbUnchanged DEF Stop, Completes
  <2> QED  BY <1>8, <2>1, <2>2, <2>3, <2>4 DEF Stop
<1> QED  BY <1>1, <1>2, <1>3, <1>4, <1>5, <1>6, <1>7, <1>8 DEF Next, Acts

LEMMA ProcessInit == Init => DbFormed /\ LifeInv
<1> SUFFICES ASSUME Init PROVE DbFormed /\ LifeInv  OBVIOUS
<1>1. DbFormed  BY DbInitFormed DEF Init
<1>2. /\ main = 0 /\ cogs = {} /\ bot = "none" /\ timers = {} /\ shutdown = [s \in Stops |-> 0]
      /\ holder = Nobody /\ complete = FALSE /\ lifeFaults = 0 /\ opened = 0 /\ closing = FALSE
      /\ \A c \in Callers : op[c].stage = "idle"
  BY IdleFields DEF Init, DbInit, Services
<1>3. LifeTyped
  <2>1. shutdown \in [Stops -> 0 .. Over + 1]  BY <1>2, StoppingIs
  <2>2. lifeFaults \in 0 .. MaxLifeFaults /\ main \in Services .. Exit
    BY <1>2, StoppingIs, LifecycleAssumption DEF Services
  <2>3. cogs \subseteq Working /\ timers \subseteq Timers /\ complete \in BOOLEAN  BY <1>2
  <2> QED  BY <1>2, <2>1, <2>2, <2>3 DEF LifeTyped
<1>4. \A s \in Stops : s # Nobody /\ shutdown[s] = 0  BY <1>2, LifecycleAssumption DEF Stops, Nobody
<1>5. Ordering  BY <1>2, <1>4, StoppingIs DEF Ordering, Fresh, At
<1>6. Tidy
  <2>1. \A s \in Stops : StopOK(s)  BY <1>2, <1>4, StoppingIs DEF StopOK, Done
  <2> QED  BY <1>2, <2>1, StoppingIs DEF Tidy, Services
<1> QED  BY <1>1, <1>3, <1>5, <1>6 DEF LifeInv

LEMMA CleanFollows == LifeInv => CleanExit
BY DEF LifeInv, Tidy, StopOK, CleanExit, Stops

-----------------------------------------------------------------------------
(* The synchronisation of the commands.                                    *)

Ats == {"idle", "sleep", "begin", "fetch", "each", "guilds", "delete", "done", "stopped"}
Seen == [Range(Names) -> {"none", "same", "old"}]
RunState == [at : Ats, next : 1 .. Len(Names) + 1, found : Seen, left : SUBSET Guilds,
             guild : Guilds \cup {"none"}, list : Seq(STRING), again : BOOLEAN]

SyncTyped ==
    /\ global \in Seen /\ DOMAIN guilds = Guilds /\ \A g \in Guilds : guilds[g] \in Seq(STRING)
    /\ run \in [Runs -> RunState] /\ synced \in BOOLEAN /\ syncFaults \in 0 .. MaxSyncFaults

\* Each command that a run has passed is there, and what it has seen there still is.
EachOK(r) ==
    run[r].at = "each" =>
        /\ \A i \in 1 .. run[r].next - 1 : global[Names[i]] = "same"
        /\ \A n \in Range(Names) : run[r].found[n] = "same" => global[n] = "same"

\* on_ready's second clean-up is its last.
LastOK(x) ==
    /\ x.again => x.at \in {"guilds", "delete", "done", "stopped"}
    /\ x.at = "done" => x.again
AgainOK ==
    /\ LastOK(run["ready"])
    /\ \A r \in Runs : run[r].at = "delete" => run[r].guild \in Guilds

\* The bot's own commands of a list, and the order of the guild's commands, which every list keeps.
Own(list) == Range(list) \cap Range(Names)
Before(g, a, b) == \E l, m \in DOMAIN Legacy[g] : l < m /\ Legacy[g][l] = a /\ Legacy[g][m] = b
InOrder(list, g) == \A i, k \in DOMAIN list : i < k => Before(g, list[i], list[k])

\* A run that cleans a guild goes through a list whose own commands are all that are left there, or
\* whose next own command is gone: then the other run is the one with the complete list.
Bare(g) == Own(guilds[g]) = {}
Cleans(r, g) == run[r].at = "delete" /\ run[r].guild = g
Exact(r, g) == Cleans(r, g) /\ Own(run[r].list) = Own(guilds[g])
EndsAt(list, there) ==
    \/ list = <<>>
    \/ \E i \in DOMAIN list : /\ list[i] \in Range(Names) \ there
                              /\ \A k \in 1 .. i - 1 : list[k] \notin Range(Names)
Ends(list, g) == EndsAt(list, Range(guilds[g]))
Other(r) == IF r = "ready" THEN "connect" ELSE "ready"
CleansWell(r, g) == Exact(r, g) \/ (Ends(run[r].list, g) /\ Exact(Other(r), g))

\* on_ready's second clean-up has come to the guild.
Passed(x, g) == x.again /\ (x.at = "done" \/ (x.at \in {"guilds", "delete"} /\ g \notin x.left))
Past(g) == Passed(run["ready"], g)

GuildOK(g) ==
    /\ InOrder(guilds[g], g)
    /\ \A r \in Runs : Cleans(r, g) => InOrder(run[r].list, g)
    /\ Bare(g) \/ \A r \in Runs : Cleans(r, g) => CleansWell(r, g)
    /\ Past(g) => Bare(g) \/ \E r \in Runs : Exact(r, g)

SyncInv ==
    /\ SyncTyped /\ (\A r \in Runs : EachOK(r)) /\ SyncedMeansThere /\ AgainOK
    /\ syncFaults = 0 => \A g \in Guilds : GuildOK(g)

LEMMA NothingTyped == Nothing \in Seen
BY DEF Nothing, Seen

LEMMA UnstartedTyped ==
  /\ Unstarted \in RunState /\ Unstarted.at = "idle" /\ Unstarted.next = 1 /\ Unstarted.left = {}
  /\ Unstarted.guild = "none" /\ Unstarted.list = <<>> /\ Unstarted.again = FALSE
<1>1. Len(Names) \in Nat  BY SyncAssumption
<1>2. 1 \in 1 .. Len(Names) + 1 /\ {} \in SUBSET Guilds /\ <<>> \in Seq(STRING) /\ "idle" \in Ats  BY <1>1 DEF Ats
<1> QED  BY <1>2, NothingTyped DEF Unstarted, RunState

\* A run goes on with a state of its own; the other does not move.
Takes(r, x) == x \in RunState /\ run'[r] = x /\ run' \in [Runs -> RunState] /\ \A t \in Runs \ {r} : run'[t] = run[t]
Starts(x, at, again) ==
    /\ x \in RunState /\ x.at = at /\ x.again = again /\ x.next = 1 /\ x.left = {} /\ x.list = <<>>

LEMMA GoesTakes ==
  ASSUME run \in [Runs -> RunState], NEW r \in Runs, NEW x \in RunState, Goes(r, x)
  PROVE  Takes(r, x)
BY DEF Goes, Takes

LEMMA StageStarts ==
  ASSUME run \in [Runs -> RunState], NEW r \in Runs, NEW at \in Ats
  PROVE  Starts(Stage(r, at), at, run[r].again)
<1> DEFINE x == [Unstarted EXCEPT !.at = at]
           y == [x EXCEPT !.again = run[r].again]
<1>1. x \in RunState /\ x.at = at /\ x.next = 1 /\ x.left = {} /\ x.list = <<>>  BY UnstartedTyped DEF RunState
<1>2. run[r].again \in BOOLEAN  BY DEF RunState
<1> HIDE DEF x
<1>3. y \in RunState /\ y.at = at /\ y.next = 1 /\ y.left = {} /\ y.list = <<>> /\ y.again = run[r].again
  BY <1>1, <1>2 DEF RunState
<1>4. Stage(r, at) = y  BY DEF Stage, x
<1> HIDE DEF y
<1> QED  BY <1>3, <1>4 DEF Starts

LEMMA FetchedIs ==
  ASSUME run \in [Runs -> RunState], NEW r \in Runs, NEW found \in Seen,
         NEW x, x = [Stage(r, "each") EXCEPT !.found = found]
  PROVE  Starts(x, "each", run[r].again) /\ x.found = found
<1> DEFINE s == Stage(r, "each")
<1>1. Starts(s, "each", run[r].again)
  <2>1. "each" \in Ats  BY DEF Ats
  <2> QED  BY <2>1, StageStarts
<1>2. x = [s EXCEPT !.found = found]  OBVIOUS
<1> HIDE DEF s
<1> QED  BY <1>1, <1>2 DEF Starts, RunState

CleanIs(x, again) == x \in RunState /\ x.at = "guilds" /\ x.left = Guilds /\ x.again = again
LEMMA CleanStarts ==
  ASSUME run \in [Runs -> RunState], NEW r \in Runs
  PROVE  CleanIs(Clean(r), run[r].again)
<1> DEFINE s == Stage(r, "guilds")
<1>1. Starts(s, "guilds", run[r].again)
  <2>1. "guilds" \in Ats  BY DEF Ats
  <2> QED  BY <2>1, StageStarts
<1>2. Clean(r) = [s EXCEPT !.left = Guilds]  BY DEF Clean
<1> HIDE DEF s
<1> QED  BY <1>1, <1>2 DEF Starts, RunState, CleanIs

LEMMA AfterIs ==
  ASSUME run \in [Runs -> RunState], NEW r \in Runs
  PROVE  IF r = "ready" /\ ~run[r].again THEN CleanIs(After(r), TRUE) ELSE Starts(After(r), "done", run[r].again)
<1>1. CASE r = "ready" /\ ~run[r].again
  <2> DEFINE s == Clean(r)
  <2>1. CleanIs(s, run[r].again)  BY CleanStarts
  <2>2. After(r) = [s EXCEPT !.again = TRUE]  BY <1>1 DEF After
  <2> HIDE DEF s
  <2>3. CleanIs(After(r), TRUE)  BY <2>1, <2>2 DEF CleanIs, RunState
  <2> QED  BY <1>1, <2>3
<1>2. CASE ~(r = "ready" /\ ~run[r].again)
  <2>1. "done" \in Ats  BY DEF Ats
  <2>2. After(r) = Stage(r, "done")  BY <1>2 DEF After
  <2> QED  BY <1>2, <2>1, <2>2, StageStarts
<1> QED  BY <1>1, <1>2

GuildTaken(q, g, list) == [q EXCEPT !.at = "delete", !.guild = g, !.list = list, !.left = @ \ {g}]
LEMMA GuildIs ==
  ASSUME NEW q \in RunState, NEW g \in Guilds, NEW list \in Seq(STRING),
         NEW x, x = GuildTaken(q, g, list)
  PROVE  /\ x \in RunState /\ x.at = "delete" /\ x.guild = g /\ x.list = list /\ x.left = q.left \ {g}
         /\ x.again = q.again
<1> DEFINE a == [q EXCEPT !.at = "delete"]
           b == [a EXCEPT !.guild = g]
           c == [b EXCEPT !.list = list]
<1>1. a \in RunState /\ a.at = "delete" /\ a.left = q.left /\ a.again = q.again  BY DEF RunState, Ats
<1> HIDE DEF a
<1>2. b \in RunState /\ b.at = "delete" /\ b.left = q.left /\ b.again = q.again /\ b.guild = g  BY <1>1 DEF RunState
<1> HIDE DEF b
<1>3. c \in RunState /\ c.at = "delete" /\ c.left = q.left /\ c.again = q.again /\ c.guild = g /\ c.list = list
  BY <1>2 DEF RunState
<1>4. x = [c EXCEPT !.left = @ \ {g}]  BY DEF a, b, c, GuildTaken
<1> HIDE DEF c
<1>5. q.left \ {g} \in SUBSET Guilds  BY DEF RunState
<1> QED  BY <1>3, <1>4, <1>5 DEF RunState

LEMMA LeftIs ==
  ASSUME NEW q \in RunState, NEW x, x = [q EXCEPT !.at = "guilds", !.guild = "none"]
  PROVE  x \in RunState /\ x.at = "guilds" /\ x.left = q.left /\ x.again = q.again
<1> DEFINE a == [q EXCEPT !.at = "guilds"]
<1>1. a \in RunState /\ a.at = "guilds" /\ a.left = q.left /\ a.again = q.again  BY DEF RunState, Ats
<1>2. x = [a EXCEPT !.guild = "none"]  OBVIOUS
<1> HIDE DEF a
<1> QED  BY <1>1, <1>2 DEF RunState

LEMMA ListIs ==
  ASSUME NEW q \in RunState, NEW list \in Seq(STRING)
  PROVE  LET x == [q EXCEPT !.list = list] IN
         x \in RunState /\ x.at = q.at /\ x.left = q.left /\ x.again = q.again /\ x.guild = q.guild /\ x.list = list
BY DEF RunState

LEMMA BeforeIsOrder == ASSUME NEW g \in Guilds, NEW a, NEW b, Before(g, a, b) PROVE a # b /\ ~Before(g, b, a)
<1>1. Legacy[g] \in Seq(STRING) /\ IsInjective(Legacy[g])  BY SyncAssumption DEF Guilds
<1>2. \A l, m \in DOMAIN Legacy[g] : Legacy[g][l] = Legacy[g][m] => l = m  BY <1>1 DEF IsInjective
<1>3. \A l \in DOMAIN Legacy[g] : l \in Nat  BY <1>1
<1> QED  BY <1>2, <1>3 DEF Before

LEMMA TailIs ==
  ASSUME NEW list \in Seq(STRING), list # <<>>
  PROVE  /\ Tail(list) \in Seq(STRING) /\ Len(list) \in Nat /\ Len(list) >= 1 /\ DOMAIN list = 1 .. Len(list)
         /\ Head(list) = list[1] /\ DOMAIN Tail(list) = 1 .. Len(list) - 1
         /\ \A i \in 1 .. Len(list) - 1 : Tail(list)[i] = list[i + 1]
OBVIOUS

LEMMA TailInOrder ==
  ASSUME NEW g \in Guilds, NEW list \in Seq(STRING), list # <<>>, InOrder(list, g)
  PROVE  InOrder(Tail(list), g) /\ Own(Tail(list)) = Own(list) \ {Head(list)}
<1>1. /\ Len(list) \in Nat /\ Len(list) >= 1 /\ DOMAIN list = 1 .. Len(list)
      /\ Head(list) = list[1] /\ DOMAIN Tail(list) = 1 .. Len(list) - 1
      /\ \A i \in 1 .. Len(list) - 1 : Tail(list)[i] = list[i + 1]
  BY TailIs
<1> DEFINE t == Tail(list)
<1> HIDE DEF t
<1>2. DOMAIN t = 1 .. Len(list) - 1 /\ \A i \in 1 .. Len(list) - 1 : t[i] = list[i + 1] /\ i + 1 \in DOMAIN list
  BY <1>1 DEF t
<1>3. InOrder(t, g)
  <2> SUFFICES ASSUME NEW i \in 1 .. Len(list) - 1, NEW k \in 1 .. Len(list) - 1, i < k PROVE Before(g, t[i], t[k])
    BY <1>2 DEF InOrder
  <2> QED  BY <1>1, <1>2 DEF InOrder
<1>4. \A i \in DOMAIN list : i # 1 => list[i] # list[1]
  <2> SUFFICES ASSUME NEW i \in DOMAIN list, i # 1 PROVE list[i] # list[1]  OBVIOUS
  <2>1. Before(g, list[1], list[i])  BY <1>1 DEF InOrder
  <2> QED  BY <2>1, BeforeIsOrder
<1>5. Range(t) = Range(list) \ {list[1]}
  <2>1. ASSUME NEW x \in Range(t) PROVE x \in Range(list) \ {list[1]}
    <3>1. PICK i \in 1 .. Len(list) - 1 : x = t[i]  BY <1>2 DEF Range
    <3>2. x = list[i + 1] /\ i + 1 \in DOMAIN list /\ i + 1 # 1  BY <1>2, <3>1
    <3> QED  BY <1>4, <3>2 DEF Range
  <2>2. ASSUME NEW x \in Range(list) \ {list[1]} PROVE x \in Range(t)
    <3>1. PICK i \in DOMAIN list : x = list[i] /\ i # 1  BY DEF Range
    <3>2. i - 1 \in 1 .. Len(list) - 1 /\ (i - 1) + 1 = i  BY <1>1, <3>1
    <3>3. t[i - 1] = x  BY <1>2, <3>1, <3>2
    <3> QED  BY <1>2, <3>2, <3>3 DEF Range
  <2> QED  BY <2>1, <2>2
<1>6. Own(t) = Own(list) \ {list[1]}  BY <1>5 DEF Own
<1> QED  BY <1>1, <1>3, <1>6 DEF t

LEMMA RemovedIs ==
  ASSUME NEW s \in Seq(STRING), NEW i \in DOMAIN s
  PROVE  /\ RemoveAt(s, i) \in Seq(STRING) /\ Len(s) \in Nat /\ DOMAIN s = 1 .. Len(s)
         /\ DOMAIN RemoveAt(s, i) = 1 .. Len(s) - 1
         /\ \A k \in 1 .. Len(s) - 1 : RemoveAt(s, i)[k] = IF k < i THEN s[k] ELSE s[k + 1]
<1>1. i \in 1 .. Len(s) /\ Len(s) \in Nat /\ DOMAIN s = 1 .. Len(s)  OBVIOUS
<1> DEFINE a == SubSeq(s, 1, i - 1)
           b == SubSeq(s, i + 1, Len(s))
<1>2. a \in Seq(STRING) /\ Len(a) = i - 1 /\ \A k \in 1 .. i - 1 : a[k] = s[k]  BY <1>1
<1>3. b \in Seq(STRING) /\ Len(b) = Len(s) - i /\ \A k \in 1 .. Len(s) - i : b[k] = s[k + i]  BY <1>1
<1> HIDE DEF a, b
<1>4. a \in Seq(STRING) /\ b \in Seq(STRING)  BY <1>2, <1>3
<1>5. /\ a \o b \in Seq(STRING) /\ Len(a \o b) = Len(a) + Len(b)
      /\ \A k \in 1 .. Len(a) + Len(b) : (a \o b)[k] = IF k <= Len(a) THEN a[k] ELSE b[k - Len(a)]
  BY <1>4
<1>6. Len(a) = i - 1 /\ Len(a) + Len(b) = Len(s) - 1  BY <1>1, <1>2, <1>3
<1>7. /\ a \o b \in Seq(STRING) /\ Len(a \o b) = Len(s) - 1
      /\ \A k \in 1 .. Len(s) - 1 : (a \o b)[k] = IF k <= i - 1 THEN a[k] ELSE b[k - (i - 1)]
  BY <1>5, <1>6
<1>8. DOMAIN (a \o b) = 1 .. Len(s) - 1
  <2>1. DOMAIN (a \o b) = 1 .. Len(a \o b)  BY <1>5
  <2> QED  BY <1>7, <2>1
<1>9. ASSUME NEW k \in 1 .. Len(s) - 1 PROVE (a \o b)[k] = IF k < i THEN s[k] ELSE s[k + 1]
  <2>1. CASE k < i  BY <1>1, <1>2, <1>7, <2>1
  <2>2. CASE ~(k < i)
    <3>1. k - (i - 1) \in 1 .. Len(s) - i /\ (k - (i - 1)) + i = k + 1 /\ ~(k <= i - 1)  BY <1>1, <2>2
    <3> QED  BY <1>3, <1>7, <2>2, <3>1
  <2> QED  BY <2>1, <2>2
<1>10. RemoveAt(s, i) = a \o b  BY DEF RemoveAt, a, b
<1> QED  BY <1>1, <1>7, <1>8, <1>9, <1>10

LEMMA RemovedInOrder ==
  ASSUME NEW g \in Guilds, NEW s \in Seq(STRING), NEW i \in DOMAIN s, InOrder(s, g)
  PROVE  /\ RemoveAt(s, i) \in Seq(STRING) /\ InOrder(RemoveAt(s, i), g)
         /\ Range(RemoveAt(s, i)) = Range(s) \ {s[i]}
<1> DEFINE t == RemoveAt(s, i)
<1>1. /\ t \in Seq(STRING) /\ Len(s) \in Nat /\ DOMAIN s = 1 .. Len(s) /\ DOMAIN t = 1 .. Len(s) - 1
      /\ \A k \in 1 .. Len(s) - 1 : t[k] = IF k < i THEN s[k] ELSE s[k + 1]
  BY RemovedIs
<1> HIDE DEF t
<1>2. InOrder(t, g)
  <2> SUFFICES ASSUME NEW j \in 1 .. Len(s) - 1, NEW k \in 1 .. Len(s) - 1, j < k PROVE Before(g, t[j], t[k])
    BY <1>1 DEF InOrder
  <2>1. PICK jj \in DOMAIN s, kk \in DOMAIN s : t[j] = s[jj] /\ t[k] = s[kk] /\ jj < kk
    <3> DEFINE J == IF j < i THEN j ELSE j + 1
               K == IF k < i THEN k ELSE k + 1
    <3>1. j \in Nat /\ k \in Nat /\ i \in Nat /\ Len(s) \in Nat  BY <1>1
    <3>2. J \in 1 .. Len(s) /\ K \in 1 .. Len(s) /\ J < K  BY <3>1
    <3>3. t[j] = s[J] /\ t[k] = s[K]  BY <1>1
    <3> HIDE DEF J, K
    <3> QED  BY <1>1, <3>2, <3>3
  <2> QED  BY <2>1 DEF InOrder
<1>3. \A k \in DOMAIN s : k # i => s[k] # s[i]
  <2> SUFFICES ASSUME NEW k \in DOMAIN s, k # i PROVE s[k] # s[i]  OBVIOUS
  <2>1. k < i \/ i < k  BY <1>1
  <2>2. Before(g, s[i], s[k]) \/ Before(g, s[k], s[i])  BY <2>1 DEF InOrder
  <2> QED  BY <2>2, BeforeIsOrder
<1>4. Range(t) = Range(s) \ {s[i]}
  <2>1. ASSUME NEW x \in Range(t) PROVE x \in Range(s) \ {s[i]}
    <3>1. PICK k \in 1 .. Len(s) - 1 : x = t[k]  BY <1>1 DEF Range
    <3>2. PICK m \in DOMAIN s : m # i /\ x = s[m]
      <4>1. CASE k < i  BY <1>1, <3>1, <4>1
      <4>2. CASE ~(k < i)
        <5>1. k + 1 \in DOMAIN s /\ k + 1 # i /\ x = s[k + 1]  BY <1>1, <3>1, <4>2
        <5> QED  BY <5>1
      <4> QED  BY <4>1, <4>2
    <3> QED  BY <1>3, <3>2 DEF Range
  <2>2. ASSUME NEW x \in Range(s) \ {s[i]} PROVE x \in Range(t)
    <3>1. PICK m \in DOMAIN s : m # i /\ x = s[m]  BY DEF Range
    <3>2. CASE m < i
      <4>1. m \in 1 .. Len(s) - 1 /\ t[m] = s[m]  BY <1>1, <3>2
      <4> QED  BY <1>1, <3>1, <4>1 DEF Range
    <3>3. CASE ~(m < i)
      <4>1. m - 1 \in 1 .. Len(s) - 1 /\ ~(m - 1 < i) /\ (m - 1) + 1 = m  BY <1>1, <3>1, <3>3
      <4>2. t[m - 1] = s[m]  BY <1>1, <4>1
      <4> QED  BY <1>1, <3>1, <4>1, <4>2 DEF Range
    <3> QED  BY <3>2, <3>3
  <2> QED  BY <2>1, <2>2
<1> QED  BY <1>1, <1>2, <1>4 DEF t

LEMMA TwoRuns == \A r \in Runs : Other(r) \in Runs /\ Other(r) # r /\ \A t \in Runs : t # r => t = Other(r) /\ Other(t) = r
BY DEF Runs, Other

\* A guild that a run neither has begun to clean nor begins to.
LEMMA Aside ==
  ASSUME NEW r \in Runs, NEW g, GuildOK(g), guilds'[g] = guilds[g], \A t \in Runs \ {r} : run'[t] = run[t],
         ~Cleans(r, g), ~Cleans(r, g)', Past(g)' => Past(g)
  PROVE  GuildOK(g)'
<1>1. \A t \in Runs : Cleans(t, g)' => t # r /\ Cleans(t, g) /\ run'[t] = run[t]  BY DEF Cleans
<1>2. ~Exact(r, g)  BY DEF Exact
<1>3. InOrder(guilds[g], g)' /\ \A t \in Runs : Cleans(t, g)' => InOrder(run[t].list, g)'
  BY <1>1 DEF GuildOK, InOrder, Before
<1>4. ASSUME NEW t \in Runs, Exact(t, g) PROVE Exact(t, g)'
  <2>1. run'[t] = run[t]  BY <1>2, <1>4
  <2> QED  BY <1>4, <2>1 DEF Exact, Cleans, Own
<1>5. Bare(g) => Bare(g)'  BY DEF Bare, Own
<1>6. ASSUME ~Bare(g), NEW t \in Runs, Cleans(t, g)' PROVE CleansWell(t, g)'
  <2>1. t # r /\ Cleans(t, g) /\ Other(t) = r  BY <1>1, <1>6, TwoRuns
  <2>2. Exact(t, g)  BY <1>2, <1>6, <2>1 DEF GuildOK, CleansWell
  <2> QED  BY <1>4, <2>2 DEF CleansWell
<1>7. Past(g)' => Bare(g)' \/ \E t \in Runs : Exact(t, g)'  BY <1>4, <1>5 DEF GuildOK
<1> QED  BY <1>3, <1>5, <1>6, <1>7 DEF GuildOK

\* A run goes on, and does not come to a guild or leave one.
Elsewhere(r, x) ==
    /\ Takes(r, x) /\ guilds' = guilds /\ run[r].at # "delete" /\ x.at # "delete"
    /\ global' \in Seen /\ \A n \in Range(Names) : global[n] = "same" => global'[n] = "same"
    /\ synced' \in BOOLEAN /\ SyncedMeansThere'
    /\ syncFaults' \in 0 .. MaxSyncFaults /\ syncFaults <= syncFaults'
    /\ EachOK(r)'
    /\ r = "ready" => LastOK(x) /\ (syncFaults' = 0 => \A g \in Guilds : Passed(x, g) => Passed(run[r], g))

LEMMA ElsewhereKeeps == ASSUME SyncInv, NEW r \in Runs, NEW x, Elsewhere(r, x) PROVE SyncInv'
<1>1. /\ SyncTyped /\ AgainOK /\ Takes(r, x) /\ guilds' = guilds /\ run[r].at # "delete" /\ run'[r].at # "delete"
      /\ run'[r] = x /\ \A t \in Runs \ {r} : run'[t] = run[t]
  BY DEF SyncInv, Elsewhere, Takes
<1>2. SyncTyped'  BY <1>1 DEF SyncTyped, Elsewhere, Takes
<1>3. ASSUME NEW t \in Runs PROVE EachOK(t)'
  <2>1. CASE t = r  BY <2>1 DEF Elsewhere
  <2>2. CASE t # r
    <3>1. EachOK(t) /\ run'[t] = run[t] /\ run[t] \in RunState  BY <1>1, <2>2 DEF SyncInv, SyncTyped
    <3>2. \A i \in 1 .. run[t].next - 1 : Names[i] \in Range(Names)
      <4>1. run[t].next \in 1 .. Len(Names) + 1 /\ Names \in Seq(STRING)  BY <3>1, SyncAssumption DEF RunState
      <4> QED  BY <4>1 DEF Range
    <3> QED  BY <3>1, <3>2 DEF EachOK, Elsewhere
  <2> QED  BY <2>1, <2>2
<1>4. AgainOK'
  <2>1. LastOK(run["ready"])'
    <3>1. CASE r = "ready"  BY <1>1, <3>1 DEF Elsewhere, LastOK
    <3>2. CASE r # "ready"
      <4>1. run'["ready"] = run["ready"]  BY <1>1, <3>2 DEF Runs
      <4> QED  BY <1>1, <4>1 DEF AgainOK, LastOK
    <3> QED  BY <3>1, <3>2
  <2> QED  BY <1>1, <2>1 DEF AgainOK, Guilds
<1>5. ASSUME syncFaults' = 0, NEW g \in Guilds PROVE GuildOK(g)'
  <2>1. syncFaults = 0  BY <1>1, <1>5 DEF SyncTyped, Elsewhere
  <2>2. GuildOK(g)  BY <2>1 DEF SyncInv
  <2>3. Past(g)' => Past(g)
    <3>1. CASE r = "ready"  BY <1>1, <1>5, <3>1 DEF Elsewhere, Past, Passed
    <3>2. CASE r # "ready"
      <4>1. run'["ready"] = run["ready"]  BY <1>1, <3>2 DEF Runs
      <4> QED  BY <4>1 DEF Past, Passed
    <3> QED  BY <3>1, <3>2
  <2>4. ~Cleans(r, g) /\ ~Cleans(r, g)' /\ guilds'[g] = guilds[g]  BY <1>1 DEF Cleans
  <2> QED  BY <1>1, <2>2, <2>3, <2>4, Aside
<1> QED  BY <1>2, <1>3, <1>4, <1>5 DEF SyncInv, Elsewhere, Guilds

\* What every step that does not fail leaves as it was.
LEMMA StillThere ==
  ASSUME SyncInv, UNCHANGED <<guilds, synced>>, global' = global, syncFaults' = syncFaults \/ SyncFail
  PROVE  /\ global' \in Seen /\ \A n \in Range(Names) : global[n] = "same" => global'[n] = "same"
         /\ synced' \in BOOLEAN /\ SyncedMeansThere'
         /\ syncFaults' \in 0 .. MaxSyncFaults /\ syncFaults <= syncFaults' /\ (SyncFail => syncFaults' # 0)
<1>1. SyncTyped /\ SyncedMeansThere  BY DEF SyncInv
<1>2. syncFaults \in Nat /\ syncFaults' \in 0 .. MaxSyncFaults /\ syncFaults <= syncFaults' /\ (SyncFail => syncFaults' # 0)
  BY <1>1, SyncAssumption DEF SyncTyped, SyncFail
<1> QED  BY <1>1, <1>2 DEF SyncTyped, SyncedMeansThere

LEMMA AfterElsewhere ==
  ASSUME SyncInv, NEW r \in Runs, Goes(r, After(r)), UNCHANGED <<guilds, synced>>, global' = global,
         syncFaults' = syncFaults \/ SyncFail,
         \/ run[r].at \in {"sleep", "begin", "fetch", "each"}
         \/ run[r].at = "guilds" /\ run[r].left = {}
  PROVE  SyncInv'
<1> DEFINE x == After(r)
<1>1. run \in [Runs -> RunState] /\ LastOK(run["ready"])  BY DEF SyncInv, SyncTyped, AgainOK
<1>2. IF r = "ready" /\ ~run[r].again THEN CleanIs(x, TRUE) ELSE Starts(x, "done", run[r].again)
  BY <1>1, AfterIs
<1>3. x \in RunState /\ x.at \in {"guilds", "done"}  BY <1>2 DEF CleanIs, Starts
<1>4. Goes(r, x)  OBVIOUS
<1> HIDE DEF x
<1>5. Takes(r, x)  BY <1>1, <1>3, <1>4, GoesTakes
<1>6. EachOK(r)'  BY <1>3, <1>5 DEF EachOK, Takes
<1>7. ASSUME r = "ready" PROVE LastOK(x) /\ \A g \in Guilds : Passed(x, g) => Passed(run[r], g)
  <2>1. CASE ~run[r].again  BY <1>2, <1>7, <2>1 DEF CleanIs, LastOK, Passed
  <2>2. CASE run[r].again
    <3>1. run[r].at = "guilds" /\ run[r].left = {}  BY <1>1, <1>7, <2>2 DEF LastOK
    <3> QED  BY <1>2, <1>7, <2>2, <3>1 DEF Starts, LastOK, Passed
  <2> QED  BY <2>1, <2>2
<1>8. run[r].at # "delete" /\ x.at # "delete"  BY <1>3
<1>9. Elsewhere(r, x)
  <2> HIDE DEF SyncInv
  <2> QED  BY <1>5, <1>6, <1>7, <1>8, StillThere DEF Elsewhere
<1> QED  BY <1>9, ElsewhereKeeps

LEMMA ConnectedKeeps == ASSUME SyncInv, Connected \/ Ready PROVE SyncInv'
<1>1. PICK r \in Runs, at \in {"sleep", "begin"} :
        Goes(r, Stage(r, at)) /\ (r = "ready" => run[r].at = "idle") /\ run[r].at # "delete"
  <2>1. CASE Connected  BY <2>1 DEF Connected, Runs
  <2>2. CASE Ready  BY <2>2 DEF Ready, Runs
  <2> QED  BY <2>1, <2>2
<1>2. UNCHANGED <<global, guilds, synced, syncFaults>>  BY DEF Connected, Ready
<1>3. run \in [Runs -> RunState] /\ LastOK(run["ready"])  BY DEF SyncInv, SyncTyped, AgainOK
<1> DEFINE x == Stage(r, at)
<1>4. Starts(x, at, run[r].again) /\ Goes(r, x)
  <2>1. at \in Ats  BY DEF Ats
  <2> QED  BY <1>1, <1>3, <2>1, StageStarts
<1> HIDE DEF x
<1>5. Takes(r, x) /\ x.at # "delete" /\ x.at # "each"  BY <1>3, <1>4, GoesTakes DEF Starts
<1>6. EachOK(r)'  BY <1>5 DEF EachOK, Takes
<1>7. r = "ready" => LastOK(x) /\ \A g \in Guilds : Passed(x, g) => Passed(run[r], g)
  BY <1>1, <1>3, <1>4 DEF Starts, LastOK, Passed
<1>8. Elsewhere(r, x)  BY <1>1, <1>2, <1>5, <1>6, <1>7, StillThere DEF Elsewhere
<1> QED  BY <1>8, ElsewhereKeeps

LEMMA BeginKeeps == ASSUME SyncInv, NEW r \in Runs, Begin(r) PROVE SyncInv'
<1>1. run[r].at \in {"sleep", "begin"} /\ UNCHANGED <<global, guilds, synced, syncFaults>>  BY DEF Begin
<1>2. CASE Goes(r, After(r))  BY <1>1, <1>2, AfterElsewhere
<1>3. CASE Goes(r, Stage(r, "fetch"))
  <2>1. run \in [Runs -> RunState] /\ LastOK(run["ready"])  BY DEF SyncInv, SyncTyped, AgainOK
  <2> DEFINE x == Stage(r, "fetch")
  <2>2. Starts(x, "fetch", run[r].again) /\ Goes(r, x)
    <3>1. "fetch" \in Ats  BY DEF Ats
    <3> QED  BY <1>3, <2>1, <3>1, StageStarts
  <2> HIDE DEF x
  <2>3. Takes(r, x) /\ x.at # "delete" /\ x.at # "each"  BY <2>1, <2>2, GoesTakes DEF Starts
  <2>4. EachOK(r)'  BY <2>3 DEF EachOK, Takes
  <2>5. r = "ready" => LastOK(x) /\ \A g \in Guilds : Passed(x, g) => Passed(run[r], g)
    BY <1>1, <2>1, <2>2 DEF Starts, LastOK, Passed
  <2>6. Elsewhere(r, x)  BY <1>1, <2>3, <2>4, <2>5, StillThere DEF Elsewhere
  <2> QED  BY <2>6, ElsewhereKeeps
<1> QED  BY <1>2, <1>3 DEF Begin

LEMMA FetchKeeps == ASSUME SyncInv, NEW r \in Runs, Fetch(r) PROVE SyncInv'
<1>1. run[r].at = "fetch" /\ UNCHANGED <<global, guilds, synced>> /\ (syncFaults' = syncFaults \/ SyncFail)
  BY DEF Fetch
<1>2. CASE Goes(r, After(r))  BY <1>1, <1>2, AfterElsewhere
<1>3. ASSUME NEW found \in {global, Nothing}, Goes(r, [Stage(r, "each") EXCEPT !.found = found]) PROVE SyncInv'
  <2>1. run \in [Runs -> RunState] /\ LastOK(run["ready"]) /\ found \in Seen
    BY NothingTyped DEF SyncInv, SyncTyped, AgainOK
  <2> DEFINE x == [Stage(r, "each") EXCEPT !.found = found]
  <2>2. Starts(x, "each", run[r].again) /\ x.found = found  BY <2>1, FetchedIs
  <2>3. Goes(r, x)  BY <1>3
  <2> HIDE DEF x
  <2>4. Takes(r, x) /\ x.at # "delete" /\ x.next = 1  BY <2>1, <2>2, <2>3, GoesTakes DEF Starts
  <2>5. \A n \in Range(Names) : found[n] = "same" => global[n] = "same"  BY <1>3 DEF Nothing
  <2>6. EachOK(r)'  BY <1>1, <2>2, <2>4, <2>5 DEF EachOK, Takes
  <2>7. r = "ready" => LastOK(x) /\ \A g \in Guilds : Passed(x, g) => Passed(run[r], g)
    BY <1>1, <2>1, <2>2 DEF Starts, LastOK, Passed
  <2>8. Elsewhere(r, x)  BY <1>1, <2>4, <2>6, <2>7, StillThere DEF Elsewhere
  <2> QED  BY <2>8, ElsewhereKeeps
<1> QED  BY <1>2, <1>3 DEF Fetch

LEMMA EachKeeps == ASSUME SyncInv, NEW r \in Runs, Each(r) PROVE SyncInv'
<1>1. run[r].at = "each" /\ run[r].next <= Len(Names) /\ UNCHANGED <<guilds, synced>>  BY DEF Each
<1>2. /\ run \in [Runs -> RunState] /\ LastOK(run["ready"]) /\ EachOK(r) /\ SyncTyped /\ SyncedMeansThere
  BY DEF SyncInv, SyncTyped, AgainOK
<1> DEFINE n == Names[run[r].next]
<1>3. n \in Range(Names) /\ run[r].next \in 1 .. Len(Names) /\ Len(Names) \in Nat
  <2>1. run[r].next \in 1 .. Len(Names) + 1 /\ Names \in Seq(STRING) /\ Len(Names) \in Nat
    BY <1>2, SyncAssumption DEF RunState
  <2>2. run[r].next \in DOMAIN Names  BY <1>1, <2>1
  <2> QED  BY <1>1, <2>1, <2>2 DEF Range
<1>4. CASE global' = global /\ SyncFail /\ Goes(r, After(r))  BY <1>1, <1>4, AfterElsewhere
<1>5. CASE /\ global' = IF run[r].found[n] = "same" THEN global ELSE [global EXCEPT ![n] = "same"]
           /\ Goes(r, [run[r] EXCEPT !.next = @ + 1])
           /\ UNCHANGED syncFaults
  <2> DEFINE x == [run[r] EXCEPT !.next = @ + 1]
  <2>1. /\ x \in RunState /\ x.at = "each" /\ x.next = run[r].next + 1 /\ x.found = run[r].found
        /\ x.again = run[r].again
    <3>1. run[r] \in RunState /\ run[r].next + 1 \in 1 .. Len(Names) + 1  BY <1>2, <1>3
    <3> HIDE DEF n
    <3> QED  BY <1>1, <3>1 DEF RunState
  <2>2. Goes(r, x)  BY <1>5
  <2> HIDE DEF x
  <2>3. Takes(r, x)  BY <1>2, <2>1, <2>2, GoesTakes
  <2>4. /\ global' \in Seen /\ global'[n] = "same" /\ \A m \in Range(Names) : global[m] = "same" => global'[m] = "same"
    <3>1. global \in Seen  BY <1>2 DEF SyncTyped
    <3>2. CASE run[r].found[n] = "same"
      <4>1. global' = global /\ global[n] = "same"  BY <1>1, <1>2, <1>3, <1>5, <3>2 DEF EachOK
      <4> QED  BY <3>1, <4>1
    <3>3. CASE run[r].found[n] # "same"
      <4>1. global' = [global EXCEPT ![n] = "same"]  BY <1>5, <3>3
      <4> HIDE DEF n
      <4> QED  BY <1>3, <3>1, <4>1 DEF Seen
    <3> QED  BY <3>2, <3>3
  <2>5. SyncedMeansThere' /\ synced' \in BOOLEAN  BY <1>1, <1>2, <2>4 DEF SyncedMeansThere, SyncTyped
  <2>6. EachOK(r)'
    <3>1. run'[r] = x  BY <2>3 DEF Takes
    <3>2. ASSUME NEW i \in 1 .. x.next - 1 PROVE global'[Names[i]] = "same"
      <4>1. CASE i = run[r].next  BY <2>4, <4>1
      <4>2. CASE i # run[r].next
        <5>1. i \in 1 .. run[r].next - 1 /\ i \in 1 .. Len(Names)  BY <1>3, <2>1, <4>2
        <5>2. global[Names[i]] = "same"  BY <1>1, <1>2, <5>1 DEF EachOK
        <5>3. Names[i] \in Range(Names)  BY <5>1, SyncAssumption DEF Range
        <5> QED  BY <2>4, <5>2, <5>3
      <4> QED  BY <4>1, <4>2
    <3>3. \A m \in Range(Names) : x.found[m] = "same" => global'[m] = "same"
      BY <1>1, <1>2, <2>1, <2>4 DEF EachOK
    <3> QED  BY <3>1, <3>2, <3>3 DEF EachOK
  <2>7. r = "ready" => LastOK(x) /\ \A g \in Guilds : Passed(x, g) => Passed(run[r], g)
    BY <1>1, <1>2, <2>1 DEF LastOK, Passed
  <2>8. syncFaults' \in 0 .. MaxSyncFaults /\ syncFaults <= syncFaults'  BY <1>2, <1>5, SyncAssumption DEF SyncTyped
  <2>9. run[r].at # "delete" /\ x.at # "delete"  BY <1>1, <2>1
  <2> HIDE DEF n
  <2> QED  BY <1>1, <2>3, <2>4, <2>5, <2>6, <2>7, <2>8, <2>9, ElsewhereKeeps DEF Elsewhere
<1> QED  BY <1>4, <1>5 DEF Each

LEMMA FlagKeeps == ASSUME SyncInv, NEW r \in Runs, Flag(r) PROVE SyncInv'
<1>1. run[r].at = "each" /\ run[r].next > Len(Names) /\ UNCHANGED <<global, guilds, syncFaults>> /\ synced' = TRUE
  BY DEF Flag, Complete
<1>2. run \in [Runs -> RunState] /\ LastOK(run["ready"]) /\ EachOK(r) /\ SyncTyped
  BY DEF SyncInv, SyncTyped, AgainOK
<1> DEFINE x == Clean(r)
<1>3. CleanIs(x, run[r].again)  BY <1>2, CleanStarts
<1>4. Goes(r, x)  BY DEF Flag
<1> HIDE DEF x
<1>5. Takes(r, x) /\ x.at # "delete" /\ x.at # "each"  BY <1>2, <1>3, <1>4, GoesTakes DEF CleanIs
<1>6. EachOK(r)'  BY <1>5 DEF EachOK, Takes
<1>7. r = "ready" => LastOK(x) /\ \A g \in Guilds : Passed(x, g) => Passed(run[r], g)
  BY <1>1, <1>2, <1>3 DEF CleanIs, LastOK, Passed
<1>8. SyncedMeansThere'
  <2> SUFFICES ASSUME NEW n \in Range(Names) PROVE global[n] = "same"  BY <1>1 DEF SyncedMeansThere
  <2>1. PICK i \in DOMAIN Names : n = Names[i]  BY DEF Range
  <2>2. i \in 1 .. run[r].next - 1
    <3>1. i \in 1 .. Len(Names) /\ Len(Names) \in Nat /\ run[r].next \in 1 .. Len(Names) + 1
      BY <1>2, SyncAssumption DEF RunState
    <3> QED  BY <1>1, <3>1
  <2> QED  BY <1>1, <1>2, <2>1, <2>2 DEF EachOK
<1>9. /\ global' \in Seen /\ synced' \in BOOLEAN /\ syncFaults' \in 0 .. MaxSyncFaults /\ syncFaults <= syncFaults'
      /\ run[r].at # "delete"
  BY <1>1, <1>2, SyncAssumption DEF SyncTyped
<1> QED  BY <1>1, <1>5, <1>6, <1>7, <1>8, <1>9, ElsewhereKeeps DEF Elsewhere

\* A step of a clean-up: all but the guild it is at stands aside.
Cleaning(r, x) ==
    /\ Takes(r, x) /\ UNCHANGED <<global, synced>>
    /\ DOMAIN guilds' = Guilds /\ \A g \in Guilds : guilds'[g] \in Seq(STRING)
    /\ syncFaults' \in 0 .. MaxSyncFaults /\ syncFaults <= syncFaults'
    /\ x.at \in {"guilds", "delete"} /\ (x.at = "delete" => x.guild \in Guilds)

LEMMA CleaningKeeps ==
  ASSUME SyncInv, NEW r \in Runs, NEW x, Cleaning(r, x),
         syncFaults' = 0 => \A g \in Guilds : GuildOK(g)'
  PROVE  SyncInv'
<1>1. /\ SyncTyped /\ AgainOK /\ run'[r] = x /\ \A t \in Runs \ {r} : run'[t] = run[t]
  BY DEF SyncInv, Cleaning, Takes
<1>2. SyncTyped'  BY <1>1 DEF SyncTyped, Cleaning, Takes, Guilds
<1>3. ASSUME NEW t \in Runs PROVE EachOK(t)'
  <2>1. CASE t = r  BY <1>1, <2>1 DEF EachOK, Cleaning
  <2>2. CASE t # r  BY <1>1, <2>2 DEF SyncInv, EachOK, Cleaning
  <2> QED  BY <2>1, <2>2
<1>4. AgainOK'
  <2>1. LastOK(run["ready"])'
    <3>1. CASE r = "ready"  BY <1>1, <3>1 DEF Cleaning, LastOK
    <3>2. CASE r # "ready"
      <4>1. run'["ready"] = run["ready"]  BY <1>1, <3>2 DEF Runs
      <4> QED  BY <1>1, <4>1 DEF AgainOK, LastOK
    <3> QED  BY <3>1, <3>2
  <2>2. ASSUME NEW t \in Runs PROVE run'[t].at = "delete" => run'[t].guild \in Guilds
    <3>1. CASE t = r  BY <1>1, <3>1 DEF Cleaning
    <3>2. CASE t # r  BY <1>1, <3>2 DEF AgainOK
    <3> QED  BY <3>1, <3>2
  <2> QED  BY <1>1, <2>1, <2>2 DEF AgainOK, Guilds
<1>5. SyncedMeansThere'  BY DEF SyncInv, SyncedMeansThere, Cleaning
<1> QED  BY <1>2, <1>3, <1>4, <1>5 DEF SyncInv, Guilds

LEMMA PastMoves ==
  ASSUME NEW r \in Runs, NEW x, Takes(r, x), NEW g, r = "ready" /\ Passed(x, g) => Passed(run[r], g), Past(g)'
  PROVE  Past(g)
<1>1. run'[r] = x /\ \A t \in Runs \ {r} : run'[t] = run[t]  BY DEF Takes
<1>2. CASE r = "ready"  BY <1>1, <1>2 DEF Past, Passed
<1>3. CASE r # "ready"
  <2>1. run'["ready"] = run["ready"]  BY <1>1, <1>3 DEF Runs
  <2> QED  BY <2>1 DEF Past, Passed
<1> QED  BY <1>2, <1>3

LEMMA GuildKeeps == ASSUME SyncInv, NEW r \in Runs, Guild(r) PROVE SyncInv'
<1>1. run[r].at = "guilds" /\ UNCHANGED <<global, guilds, synced>>  BY DEF Guild
<1>2. run \in [Runs -> RunState] /\ SyncTyped /\ syncFaults \in Nat
  BY SyncAssumption DEF SyncInv, SyncTyped
<1>3. PICK h \in run[r].left :
        \/ /\ Goes(r, [run[r] EXCEPT !.at = "delete", !.guild = h, !.list = guilds[h], !.left = @ \ {h}])
           /\ UNCHANGED syncFaults
        \/ SyncFail /\ Goes(r, [run[r] EXCEPT !.left = @ \ {h}])
  BY DEF Guild
<1>4. run[r] \in RunState /\ run[r].left \in SUBSET Guilds /\ h \in Guilds  BY <1>2 DEF RunState
<1>5. CASE SyncFail /\ Goes(r, [run[r] EXCEPT !.left = @ \ {h}])
  <2> DEFINE x == [run[r] EXCEPT !.left = @ \ {h}]
  <2>1. x \in RunState /\ x.at = "guilds"  BY <1>1, <1>4 DEF RunState
  <2>2. Goes(r, x)  BY <1>5
  <2> HIDE DEF x
  <2>3. Takes(r, x)  BY <1>2, <2>1, <2>2, GoesTakes
  <2>4. syncFaults' \in 0 .. MaxSyncFaults /\ syncFaults <= syncFaults' /\ syncFaults' # 0
    BY <1>2, <1>5, SyncAssumption DEF SyncFail
  <2>5. Cleaning(r, x)  BY <1>1, <1>2, <2>1, <2>3, <2>4 DEF Cleaning, SyncTyped
  <2> QED  BY <2>4, <2>5, CleaningKeeps
<1>6. CASE /\ Goes(r, [run[r] EXCEPT !.at = "delete", !.guild = h, !.list = guilds[h], !.left = @ \ {h}])
           /\ UNCHANGED syncFaults
  <2> DEFINE x == [run[r] EXCEPT !.at = "delete", !.guild = h, !.list = guilds[h], !.left = @ \ {h}]
  <2>1. guilds[h] \in Seq(STRING)  BY <1>2, <1>4 DEF SyncTyped
  <2>2. /\ x \in RunState /\ x.at = "delete" /\ x.guild = h /\ x.list = guilds[h] /\ x.left = run[r].left \ {h}
        /\ x.again = run[r].again
    <3>1. x = GuildTaken(run[r], h, guilds[h])  BY DEF GuildTaken
    <3> HIDE DEF x
    <3> QED  BY <1>4, <2>1, <3>1, GuildIs
  <2>3. Goes(r, x)  BY <1>6
  <2> HIDE DEF x
  <2>4. Takes(r, x)  BY <1>2, <2>2, <2>3, GoesTakes
  <2>5. Cleaning(r, x)  BY <1>1, <1>2, <1>4, <1>6, <2>2, <2>4 DEF Cleaning, SyncTyped
  <2>6. ASSUME syncFaults' = 0, NEW g \in Guilds PROVE GuildOK(g)'
    <3>1. GuildOK(g)  BY <1>6, <2>6 DEF SyncInv
    <3>2. run'[r] = x /\ guilds'[g] = guilds[g] /\ \A t \in Runs \ {r} : run'[t] = run[t]
      BY <1>1, <2>4 DEF Takes
    <3>3. ~Cleans(r, g)  BY <1>1 DEF Cleans
    <3>4. CASE g # h
      <4>1. ~Cleans(r, g)'  BY <2>2, <3>2, <3>4 DEF Cleans
      <4>2. Passed(x, g) => Passed(run[r], g)  BY <1>1, <2>2, <3>4 DEF Passed
      <4> QED  BY <2>4, <3>1, <3>2, <3>3, <4>1, <4>2, Aside, PastMoves
    <3>5. CASE g = h
      <4>1. Exact(r, g)'  BY <2>2, <3>2, <3>5 DEF Exact, Cleans, Own
      <4>2. ASSUME NEW t \in Runs, Cleans(t, g)', t # r PROVE InOrder(run[t].list, g)' /\ (Bare(g) \/ Exact(t, g)')
        <5>1. run'[t] = run[t] /\ Cleans(t, g) /\ Other(t) = r  BY <3>2, <4>2, TwoRuns DEF Cleans
        <5>2. InOrder(run[t].list, g)'  BY <3>1, <5>1 DEF GuildOK, InOrder, Before
        <5>3. Bare(g) \/ Exact(t, g)  BY <3>1, <3>3, <5>1 DEF GuildOK, CleansWell, Exact
        <5>4. Exact(t, g) => Exact(t, g)'  BY <3>2, <5>1 DEF Exact, Cleans, Own
        <5> QED  BY <5>2, <5>3, <5>4
      <4>3. InOrder(guilds[g], g)' /\ InOrder(run[r].list, g)'
        BY <2>2, <3>1, <3>2, <3>5 DEF GuildOK, InOrder, Before
      <4>4. Bare(g) => Bare(g)'  BY <3>2 DEF Bare, Own
      <4> QED  BY <4>1, <4>2, <4>3, <4>4 DEF GuildOK, CleansWell
    <3> QED  BY <3>4, <3>5
  <2> QED  BY <2>5, <2>6, CleaningKeeps
<1> QED  BY <1>3, <1>5, <1>6

LEMMA CleanedKeeps == ASSUME SyncInv, NEW r \in Runs, Cleaned(r) PROVE SyncInv'
<1>1. UNCHANGED <<global, guilds, synced, syncFaults>>  BY DEF Cleaned
<1>2. run \in [Runs -> RunState] /\ SyncTyped /\ AgainOK /\ run[r] \in RunState
  BY DEF SyncInv, SyncTyped
<1>3. CASE run[r].at = "guilds" /\ run[r].left = {} /\ Goes(r, After(r))  BY <1>1, <1>3, AfterElsewhere
<1>4. CASE run[r].at = "delete" /\ run[r].list = <<>> /\ Goes(r, [run[r] EXCEPT !.at = "guilds", !.guild = "none"])
  <2> DEFINE x == [run[r] EXCEPT !.at = "guilds", !.guild = "none"]
  <2>1. x \in RunState /\ x.at = "guilds" /\ x.left = run[r].left /\ x.again = run[r].again  BY <1>2, LeftIs
  <2>2. Goes(r, x)  BY <1>4
  <2> HIDE DEF x
  <2>3. Takes(r, x)  BY <1>2, <2>1, <2>2, GoesTakes
  <2>4. Cleaning(r, x)  BY <1>1, <1>2, <2>1, <2>3, SyncAssumption DEF Cleaning, SyncTyped
  <2>5. ASSUME syncFaults' = 0, NEW g \in Guilds PROVE GuildOK(g)'
    <3>1. GuildOK(g)  BY <1>1, <2>5 DEF SyncInv
    <3>2. run'[r] = x /\ guilds'[g] = guilds[g] /\ (\A t \in Runs \ {r} : run'[t] = run[t]) /\ ~Cleans(r, g)'
      BY <1>1, <2>1, <2>3 DEF Takes, Cleans
    <3>3. Past(g)' => Past(g)
      <4>1. Passed(x, g) => Passed(run[r], g)  BY <1>4, <2>1 DEF Passed
      <4> QED  BY <2>3, <4>1, PastMoves
    <3>4. CASE ~Cleans(r, g)  BY <3>1, <3>2, <3>3, <3>4, Aside
    <3>5. CASE Cleans(r, g)
      <4>1. Exact(r, g) => Bare(g)
        <5>1. Own(<<>>) = {}  BY DEF Own, Range
        <5> QED  BY <1>4, <5>1 DEF Exact, Bare
      <4>2. Bare(g) => Bare(g)'  BY <3>2 DEF Bare, Own
      <4>3. ASSUME NEW t \in Runs, Cleans(t, g)' PROVE InOrder(run[t].list, g)' /\ (Bare(g) \/ Exact(t, g)')
        <5>1. t # r /\ run'[t] = run[t] /\ Cleans(t, g) /\ Other(t) = r  BY <3>2, <4>3, TwoRuns DEF Cleans
        <5>2. InOrder(run[t].list, g)'  BY <3>1, <5>1 DEF GuildOK, InOrder, Before
        <5>3. Bare(g) \/ Exact(t, g)  BY <3>1, <4>1, <5>1 DEF GuildOK, CleansWell
        <5>4. Exact(t, g) => Exact(t, g)'  BY <3>2, <5>1 DEF Exact, Cleans, Own
        <5> QED  BY <5>2, <5>3, <5>4
      <4>4. InOrder(guilds[g], g)'  BY <3>1, <3>2 DEF GuildOK, InOrder, Before
      <4>5. Bare(g) \/ \E t \in Runs : Exact(t, g)'
        <5>1. Bare(g) \/ Exact(Other(r), g)  BY <3>1, <3>5, <4>1 DEF GuildOK, CleansWell
        <5>2. Other(r) \in Runs /\ Other(r) # r /\ run'[Other(r)] = run[Other(r)]  BY <3>2, TwoRuns
        <5>3. Exact(Other(r), g) => Exact(Other(r), g)'  BY <3>2, <5>2 DEF Exact, Cleans, Own
        <5> QED  BY <5>1, <5>2, <5>3
      <4> QED  BY <4>2, <4>3, <4>4, <4>5 DEF GuildOK, CleansWell
    <3> QED  BY <3>4, <3>5
  <2> QED  BY <2>4, <2>5, CleaningKeeps
<1> QED  BY <1>3, <1>4 DEF Cleaned

LEMMA StoppedKeeps == ASSUME SyncInv, Stopped PROVE SyncInv'
<1> DEFINE x == [Unstarted EXCEPT !.at = "stopped"]
<1>1. x \in RunState /\ x.at = "stopped" /\ x.again = FALSE  BY UnstartedTyped DEF RunState, Ats
<1>2. run' = [r \in Runs |-> x] /\ UNCHANGED <<global, guilds, synced, syncFaults>>  BY DEF Stopped
<1> HIDE DEF x
<1>3. SyncTyped'  BY <1>1, <1>2 DEF SyncInv, SyncTyped, Guilds
<1>4. \A r \in Runs : run'[r] = x  BY <1>2
<1>5. (\A r \in Runs : EachOK(r)') /\ SyncedMeansThere'
  BY <1>1, <1>2, <1>4 DEF EachOK, SyncInv, SyncedMeansThere
<1>6. AgainOK'  BY <1>1, <1>4 DEF AgainOK, LastOK, Runs
<1>7. ASSUME syncFaults' = 0, NEW g \in Guilds PROVE GuildOK(g)'
  <2>1. GuildOK(g) /\ guilds'[g] = guilds[g]  BY <1>2, <1>7 DEF SyncInv
  <2>2. (\A r \in Runs : ~Cleans(r, g)') /\ ~Past(g)'  BY <1>1, <1>4 DEF Cleans, Past, Passed, Runs
  <2>3. InOrder(guilds[g], g)'  BY <2>1 DEF GuildOK, InOrder, Before
  <2> QED  BY <2>2, <2>3 DEF GuildOK
<1> QED  BY <1>3, <1>5, <1>6, <1>7 DEF SyncInv, Guilds

\* One command of a list: what is there of the guild, and what is left of the list.
Deleting(r, g, list) ==
    /\ run[r].at = "delete" /\ g = run[r].guild /\ run[r].list # <<>>
    /\ list \in Seq(STRING) /\ Goes(r, [run[r] EXCEPT !.list = list])
    /\ DOMAIN guilds' = Guilds /\ \A h \in Guilds : h # g => guilds'[h] = guilds[h]
    /\ guilds'[g] \in Seq(STRING) /\ UNCHANGED <<global, synced>>
    /\ syncFaults' \in 0 .. MaxSyncFaults /\ syncFaults <= syncFaults'

LEMMA DeletingKeeps ==
  ASSUME SyncInv, NEW r \in Runs, NEW g \in Guilds, NEW list, Deleting(r, g, list),
         syncFaults' = 0 /\ GuildOK(g) /\ ~Bare(g) =>
             /\ InOrder(guilds'[g], g) /\ InOrder(list, g)
             /\ \A t \in Runs : Cleans(t, g)' => CleansWell(t, g)'
             /\ \E t \in Runs : Exact(t, g)',
         syncFaults' = 0 /\ GuildOK(g) /\ Bare(g) => guilds'[g] = guilds[g] /\ InOrder(list, g)
  PROVE  SyncInv'
<1> DEFINE x == [run[r] EXCEPT !.list = list]
<1>1. run \in [Runs -> RunState] /\ SyncTyped /\ run[r] \in RunState  BY DEF SyncInv, SyncTyped
<1>2. /\ x \in RunState /\ x.at = run[r].at /\ x.left = run[r].left /\ x.again = run[r].again
      /\ x.guild = run[r].guild /\ x.list = list
  BY <1>1, ListIs DEF Deleting
<1>3. Goes(r, x)  BY DEF Deleting
<1> HIDE DEF x
<1>4. Takes(r, x)  BY <1>1, <1>2, <1>3, GoesTakes
<1>5. Cleaning(r, x)
  <2>1. \A h \in Guilds : guilds'[h] \in Seq(STRING)  BY <1>1 DEF Deleting, SyncTyped
  <2> QED  BY <1>1, <1>2, <1>4, <2>1 DEF Cleaning, Deleting
<1>6. run'[r] = x /\ \A t \in Runs \ {r} : run'[t] = run[t]  BY <1>4 DEF Takes
<1>7. ASSUME syncFaults' = 0, NEW h \in Guilds PROVE GuildOK(h)'
  <2>1. syncFaults = 0  BY <1>1, <1>7, SyncAssumption DEF SyncTyped, Deleting
  <2>2. GuildOK(h)  BY <2>1 DEF SyncInv
  <2>3. Past(h)' => Past(h)
    <3>1. Passed(x, h) => Passed(run[r], h)  BY <1>2 DEF Passed
    <3> QED  BY <1>4, <3>1, PastMoves
  <2>4. CASE h # g
    <3>1. ~Cleans(r, h) /\ ~Cleans(r, h)' /\ guilds'[h] = guilds[h]
      BY <1>2, <1>6, <2>4 DEF Cleans, Deleting
    <3> QED  BY <1>6, <2>2, <2>3, <3>1, Aside
  <2>5. CASE h = g
    <3>1. InOrder(guilds'[g], g) /\ InOrder(list, g) /\ (Bare(g) => Bare(g)')
      BY <1>7, <2>2, <2>5 DEF GuildOK, Bare
    <3>2. \A t \in Runs : Cleans(t, g)' => InOrder(run'[t].list, g)
      <4> SUFFICES ASSUME NEW t \in Runs, Cleans(t, g)' PROVE InOrder(run'[t].list, g)  OBVIOUS
      <4>1. CASE t = r  BY <1>2, <1>6, <3>1, <4>1
      <4>2. CASE t # r
        <5>1. run'[t] = run[t] /\ Cleans(t, g)  BY <1>6, <4>2 DEF Cleans
        <5> QED  BY <2>2, <2>5, <5>1 DEF GuildOK
      <4> QED  BY <4>1, <4>2
    <3>3. InOrder(guilds[g], g)' /\ \A t \in Runs : Cleans(t, g)' => InOrder(run[t].list, g)'
      BY <3>1, <3>2 DEF InOrder, Before
    <3>4. Bare(g)' \/ \A t \in Runs : Cleans(t, g)' => CleansWell(t, g)'  BY <1>7, <2>2, <2>5, <3>1
    <3>5. Bare(g)' \/ \E t \in Runs : Exact(t, g)'  BY <1>7, <2>2, <2>5, <3>1
    <3> QED  BY <2>5, <3>3, <3>4, <3>5 DEF GuildOK
  <2> QED  BY <2>4, <2>5
<1> QED  BY <1>5, <1>7, CleaningKeeps

\* A run whose next own command is gone deletes none.
LEMMA EndsTail ==
  ASSUME NEW there, NEW list \in Seq(STRING), list # <<>>, EndsAt(list, there), Head(list) \notin Range(Names)
  PROVE  EndsAt(Tail(list), there)
<1> DEFINE t == Tail(list)
<1>1. /\ Len(list) \in Nat /\ DOMAIN list = 1 .. Len(list) /\ Head(list) = list[1]
      /\ DOMAIN t = 1 .. Len(list) - 1 /\ \A i \in 1 .. Len(list) - 1 : t[i] = list[i + 1]
  BY TailIs
<1> HIDE DEF t
<1>2. PICK i \in DOMAIN list : /\ list[i] \in Range(Names) \ there
                               /\ \A k \in 1 .. i - 1 : list[k] \notin Range(Names)
  BY DEF EndsAt
<1>3. i - 1 \in DOMAIN t /\ t[i - 1] = list[i]
  <2>1. i # 1  BY <1>1, <1>2
  <2>2. i - 1 \in 1 .. Len(list) - 1 /\ (i - 1) + 1 = i  BY <1>1, <2>1
  <2> QED  BY <1>1, <2>2
<1>4. \A k \in 1 .. (i - 1) - 1 : t[k] \notin Range(Names)
  <2> SUFFICES ASSUME NEW k \in 1 .. (i - 1) - 1 PROVE t[k] \notin Range(Names)  OBVIOUS
  <2>1. k \in 1 .. Len(list) - 1 /\ k + 1 \in 1 .. i - 1  BY <1>1, <1>2
  <2> QED  BY <1>1, <1>2, <2>1
<1>5. EndsAt(t, there)  BY <1>2, <1>3, <1>4 DEF EndsAt
<1> QED  BY <1>5 DEF t

LEMMA EndsHead ==
  ASSUME NEW there, NEW list \in Seq(STRING), list # <<>>, EndsAt(list, there), Head(list) \in Range(Names)
  PROVE  Head(list) \notin there
<1>1. DOMAIN list = 1 .. Len(list) /\ Head(list) = list[1] /\ Len(list) \in Nat  BY TailIs
<1>2. PICK i \in DOMAIN list : /\ list[i] \in Range(Names) \ there
                               /\ \A k \in 1 .. i - 1 : list[k] \notin Range(Names)
  BY DEF EndsAt
<1>3. i = 1
  <2>1. i # 1 => 1 \in 1 .. i - 1  BY <1>1, <1>2
  <2> QED  BY <1>1, <1>2, <2>1
<1> QED  BY <1>1, <1>2, <1>3

\* Two runs with the same own commands left are at the same one: it is the first of both.
LEMMA EndsOther ==
  ASSUME NEW g \in Guilds, NEW a \in Seq(STRING), a # <<>>, InOrder(a, g),
         NEW b \in Seq(STRING), InOrder(b, g), Own(a) = Own(b), Head(a) \in Range(Names),
         NEW there, Head(a) \notin there
  PROVE  EndsAt(b, there)
<1>1. DOMAIN a = 1 .. Len(a) /\ Head(a) = a[1] /\ Len(a) \in Nat /\ Len(a) >= 1  BY TailIs
<1>2. a[1] \in Own(b)
  <2>1. 1 \in DOMAIN a /\ a[1] \in Range(Names)  BY <1>1
  <2>2. a[1] \in Own(a)  BY <2>1 DEF Own, Range
  <2> QED  BY <2>2
<1>3. PICK j \in DOMAIN b : b[j] = a[1]  BY <1>2 DEF Own, Range
<1>4. \A k \in 1 .. j - 1 : b[k] \notin Range(Names)
  <2> SUFFICES ASSUME NEW k \in 1 .. j - 1, b[k] \in Range(Names) PROVE FALSE  OBVIOUS
  <2>1. k \in DOMAIN b /\ k < j  BY <1>3
  <2>2. Before(g, b[k], a[1])  BY <1>3, <2>1 DEF InOrder
  <2>3. b[k] \in Own(a)  BY <2>1 DEF Own, Range
  <2>4. PICK i \in DOMAIN a : a[i] = b[k]  BY <2>3 DEF Own, Range
  <2>5. i # 1  BY <2>2, <2>4, BeforeIsOrder
  <2>6. 1 < i /\ 1 \in DOMAIN a  BY <1>1, <2>4, <2>5
  <2>7. Before(g, a[1], b[k])  BY <2>4, <2>6 DEF InOrder
  <2> QED  BY <2>2, <2>7, BeforeIsOrder
<1> QED  BY <1>1, <1>3, <1>4 DEF EndsAt

LEMMA DeleteKeeps == ASSUME SyncInv, NEW r \in Runs, Delete(r) PROVE SyncInv'
<1>0. PICK g, list, n : g = run[r].guild /\ list = run[r].list /\ n = Head(list)  OBVIOUS
<1>1. /\ run \in [Runs -> RunState] /\ SyncTyped /\ run[r] \in RunState /\ run[r].at = "delete" /\ g \in Guilds
      /\ list # <<>> /\ list \in Seq(STRING) /\ UNCHANGED <<global, synced>>
  BY <1>0 DEF SyncInv, SyncTyped, AgainOK, Delete, RunState
<1>2. Cleans(r, g) /\ guilds[g] \in Seq(STRING) /\ DOMAIN guilds = Guilds /\ syncFaults \in 0 .. MaxSyncFaults
  BY <1>0, <1>1 DEF Cleans, SyncTyped
<1>3. MaxSyncFaults \in Nat  BY SyncAssumption
<1>4. GuildOK(g) => InOrder(list, g) /\ InOrder(guilds[g], g) /\ (Bare(g) \/ \A t \in Runs : Cleans(t, g) => CleansWell(t, g))
  BY <1>0, <1>2 DEF GuildOK
<1>5. CASE n \notin Range(Names) /\ Goes(r, [run[r] EXCEPT !.list = Tail(list)]) /\ UNCHANGED <<guilds, syncFaults>>
  <2>1. Tail(list) \in Seq(STRING)  BY <1>1, TailIs
  <2>2. Deleting(r, g, Tail(list))  BY <1>0, <1>1, <1>2, <1>3, <1>5, <2>1 DEF Deleting
  <2>3. run'[r].list = Tail(list) /\ run'[r].at = "delete" /\ run'[r].guild = g
    <3>1. run' = [run EXCEPT ![r] = [run[r] EXCEPT !.list = Tail(list)]]  BY <1>5 DEF Goes
    <3> QED  BY <1>0, <1>1, <2>1, <3>1, ListIs
  <2>4. \A t \in Runs \ {r} : run'[t] = run[t]  BY <1>1, <1>5 DEF Goes
  <2>5. ASSUME GuildOK(g) PROVE InOrder(Tail(list), g) /\ Own(Tail(list)) = Own(list)
    <3>1. n \notin Own(list)  BY <1>5 DEF Own
    <3> QED  BY <1>0, <1>1, <1>4, <2>5, <3>1, TailInOrder
  <2>6. ASSUME GuildOK(g), NEW t \in Runs, Exact(t, g) PROVE Exact(t, g)'
    <3>1. CASE t = r  BY <1>0, <1>5, <2>3, <2>5, <2>6, <3>1 DEF Exact, Cleans, Own
    <3>2. CASE t # r  BY <1>5, <2>4, <2>6, <3>2 DEF Exact, Cleans, Own
    <3> QED  BY <3>1, <3>2
  <2>7. ASSUME GuildOK(g), ~Bare(g), NEW t \in Runs, Cleans(t, g)' PROVE CleansWell(t, g)' /\ \E s \in Runs : Exact(s, g)'
    <3>1. Cleans(t, g)
      <4>1. CASE t = r  BY <1>2, <4>1
      <4>2. CASE t # r  BY <2>4, <2>7, <4>2 DEF Cleans
      <4> QED  BY <4>1, <4>2
    <3>2. Exact(t, g) \/ (Ends(run[t].list, g) /\ Exact(Other(t), g))  BY <1>4, <2>7, <3>1 DEF CleansWell
    <3>3. Ends(run[t].list, g) => Ends(run[t].list, g)'
      <4>1. Ends(run[t].list, g) => EndsAt(run'[t].list, Range(guilds[g]))
        <5>1. CASE t = r  BY <1>0, <1>1, <1>5, <2>3, <5>1, EndsTail DEF Ends
        <5>2. CASE t # r  BY <2>4, <5>2 DEF Ends
        <5> QED  BY <5>1, <5>2
      <4>2. guilds' = guilds  BY <1>5
      <4> QED  BY <4>1, <4>2 DEF Ends
    <3>4. Other(t) \in Runs  BY TwoRuns
    <3> QED  BY <2>6, <2>7, <3>2, <3>3, <3>4 DEF CleansWell
  <2>8. Cleans(r, g)'  BY <2>3 DEF Cleans
  <2> QED  BY <1>1, <1>4, <1>5, <2>2, <2>5, <2>7, <2>8, DeletingKeeps
<1>6. ASSUME n \in Range(Names), NEW i \in DOMAIN guilds[g], guilds[g][i] = n,
             guilds' = [guilds EXCEPT ![g] = RemoveAt(@, i)],
             Goes(r, [run[r] EXCEPT !.list = Tail(list)]), UNCHANGED syncFaults
      PROVE SyncInv'
  <2>1. Tail(list) \in Seq(STRING)  BY <1>1, TailIs
  <2>2. RemoveAt(guilds[g], i) \in Seq(STRING)  BY <1>2, RemovedIs
  <2>3. guilds'[g] = RemoveAt(guilds[g], i) /\ DOMAIN guilds' = Guilds /\ \A h \in Guilds : h # g => guilds'[h] = guilds[h]
    BY <1>1, <1>2, <1>6
  <2>4. Deleting(r, g, Tail(list))  BY <1>0, <1>1, <1>2, <1>3, <1>6, <2>1, <2>2, <2>3 DEF Deleting
  <2>5. run'[r].list = Tail(list) /\ run'[r].at = "delete" /\ run'[r].guild = g
    <3>1. run' = [run EXCEPT ![r] = [run[r] EXCEPT !.list = Tail(list)]]  BY <1>6 DEF Goes
    <3> QED  BY <1>0, <1>1, <2>1, <3>1, ListIs
  <2>6. \A t \in Runs \ {r} : run'[t] = run[t]  BY <1>1, <1>6 DEF Goes
  <2>7. ~Bare(g) /\ n \in Range(guilds[g])  BY <1>6 DEF Bare, Own, Range
  <2>8. ASSUME GuildOK(g)
        PROVE  /\ InOrder(guilds'[g], g) /\ InOrder(Tail(list), g)
               /\ \A t \in Runs : Cleans(t, g)' => CleansWell(t, g)'
               /\ \E t \in Runs : Exact(t, g)'
    <3>1. /\ InOrder(guilds'[g], g) /\ Range(guilds'[g]) = Range(guilds[g]) \ {n}
      BY <1>1, <1>2, <1>4, <1>6, <2>3, <2>8, RemovedInOrder
    <3>2. InOrder(Tail(list), g) /\ Own(Tail(list)) = Own(list) \ {n}  BY <1>0, <1>1, <1>4, <2>8, TailInOrder
    <3>3. Exact(r, g)
      <4>1. ~Ends(list, g)  BY <1>0, <1>1, <1>6, <2>7, EndsHead DEF Ends
      <4> QED  BY <1>0, <1>2, <1>4, <2>7, <2>8, <4>1 DEF CleansWell
    <3>4. Exact(r, g)'  BY <1>0, <2>5, <3>1, <3>2, <3>3 DEF Exact, Cleans, Own
    <3>5. ASSUME NEW t \in Runs, Cleans(t, g)', t # r PROVE Ends(run[t].list, g)' /\ Other(t) = r
      <4>1. run'[t] = run[t] /\ Cleans(t, g) /\ Other(t) = r  BY <2>6, <3>5, TwoRuns DEF Cleans
      <4>6. PICK l \in Seq(STRING) : l = run[t].list
        <5>1. run[t] \in RunState  BY <1>1
        <5> QED  BY <5>1 DEF RunState
      <4>2. InOrder(run[t].list, g)  BY <2>8, <4>1 DEF GuildOK
      <4>3. Exact(t, g) \/ Ends(run[t].list, g)  BY <1>4, <2>7, <2>8, <4>1 DEF CleansWell
      <4>4. CASE Ends(run[t].list, g)
        <5>1. EndsAt(l, Range(guilds'[g]))  BY <3>1, <4>4, <4>6 DEF Ends, EndsAt
        <5> QED  BY <4>1, <4>6, <5>1 DEF Ends
      <4>5. CASE Exact(t, g)
        <5>1. Own(list) = Own(l)  BY <1>0, <3>3, <4>5, <4>6 DEF Exact
        <5>2. n \notin Range(guilds'[g]) /\ InOrder(list, g) /\ InOrder(l, g)  BY <1>4, <2>8, <3>1, <4>2, <4>6
        <5>3. EndsAt(l, Range(guilds'[g]))  BY <1>0, <1>1, <1>6, <5>1, <5>2, EndsOther
        <5> QED  BY <4>1, <4>6, <5>3 DEF Ends
      <4> QED  BY <4>3, <4>4, <4>5, <4>1
    <3> QED  BY <3>1, <3>2, <3>4, <3>5 DEF CleansWell
  <2> QED  BY <1>1, <2>4, <2>7, <2>8, DeletingKeeps
<1>7. CASE /\ n \in Range(Names) /\ IF Contains(guilds[g], n) THEN SyncFail ELSE UNCHANGED syncFaults
           /\ Goes(r, [run[r] EXCEPT !.list = <<>>]) /\ UNCHANGED guilds
  <2>1. <<>> \in Seq(STRING)  OBVIOUS
  <2>2. syncFaults' \in 0 .. MaxSyncFaults /\ syncFaults <= syncFaults' /\ (SyncFail => syncFaults' # 0)
    BY <1>2, <1>3, <1>7 DEF SyncFail
  <2>3. Deleting(r, g, <<>>)  BY <1>0, <1>1, <1>2, <1>7, <2>1, <2>2 DEF Deleting
  <2>4. run'[r].list = <<>> /\ run'[r].at = "delete" /\ run'[r].guild = g
    <3>1. run' = [run EXCEPT ![r] = [run[r] EXCEPT !.list = <<>>]]  BY <1>7 DEF Goes
    <3> QED  BY <1>0, <1>1, <2>1, <3>1, ListIs
  <2>5. \A t \in Runs \ {r} : run'[t] = run[t]  BY <1>1, <1>7 DEF Goes
  <2>6. InOrder(<<>>, g)  BY DEF InOrder
  <2>7. ASSUME syncFaults' = 0, GuildOK(g), ~Bare(g)
        PROVE  /\ \A t \in Runs : Cleans(t, g)' => CleansWell(t, g)'
               /\ \E t \in Runs : Exact(t, g)'
    <3>1. n \notin Range(guilds[g])
      <4>1. ~Contains(guilds[g], n)  BY <1>7, <2>2, <2>7
      <4> QED  BY <1>2, <4>1 DEF Contains, Range
    <3>2. n \in Own(list)
      <4>1. n = list[1] /\ 1 \in DOMAIN list  BY <1>0, <1>1, TailIs
      <4> QED  BY <1>7, <4>1 DEF Own, Range
    <3>3. ~Exact(r, g)  BY <1>0, <3>1, <3>2 DEF Exact, Own
    <3>4. Exact(Other(r), g) /\ Other(r) \in Runs /\ Other(r) # r
      BY <1>2, <1>4, <2>7, <3>3, TwoRuns DEF CleansWell
    <3>5. Exact(Other(r), g)'  BY <1>7, <2>5, <3>4 DEF Exact, Cleans, Own
    <3>6. Ends(run[r].list, g)'  BY <2>4 DEF Ends, EndsAt
    <3>7. \A t \in Runs : t # r => t = Other(r)  BY TwoRuns
    <3> QED  BY <3>4, <3>5, <3>6, <3>7 DEF CleansWell
  <2> QED  BY <1>1, <1>4, <1>7, <2>3, <2>6, <2>7, DeletingKeeps
<1> QED  BY <1>0, <1>5, <1>6, <1>7 DEF Delete, Foreign

LEMMA SyncUnchanged == SyncInv /\ UNCHANGED syncVars => SyncInv'
<1> SUFFICES ASSUME SyncInv, UNCHANGED syncVars PROVE SyncInv'  OBVIOUS
<1>1. UNCHANGED <<global, guilds, run, synced, syncFaults>>  BY DEF syncVars
<1>2. SyncTyped' /\ (\A r \in Runs : EachOK(r)') /\ SyncedMeansThere' /\ AgainOK'
  BY <1>1 DEF SyncInv, SyncTyped, EachOK, SyncedMeansThere, AgainOK, LastOK, Guilds
<1>3. ASSUME syncFaults' = 0, NEW g \in Guilds PROVE GuildOK(g)'
  <2>1. GuildOK(g)  BY <1>1, <1>3 DEF SyncInv
  <2> QED
    BY <1>1, <2>1 DEF GuildOK, InOrder, Before, Cleans, Bare, Own, CleansWell, Exact, Ends, EndsAt, Past, Passed
<1> QED  BY <1>2, <1>3 DEF SyncInv, Guilds

LEMMA SyncStep == ASSUME SyncInv, [Next]_vars PROVE SyncInv'
<1>1. CASE Commands
  <2>1. CASE Connected \/ Ready  BY <2>1, ConnectedKeeps
  <2>2. ASSUME NEW r \in Runs, Sync(r) PROVE SyncInv'
    BY <2>2, BeginKeeps, FetchKeeps, EachKeeps, FlagKeeps, GuildKeeps, DeleteKeeps, CleanedKeeps DEF Sync
  <2> QED  BY <1>1, <2>1, <2>2 DEF Commands
<1>2. CASE \E s \in Stops : CloseBot(s)  BY <1>2, StoppedKeeps, SyncUnchanged DEF CloseBot
<1>3. CASE ~Commands /\ ~\E s \in Stops : CloseBot(s)
  <2>1. UNCHANGED syncVars
    <3>1. CASE UNCHANGED vars  BY <3>1 DEF vars
    <3>2. CASE Serve \/ Register \/ Ended \/ Leave  BY <3>2 DEF Serve, Register, Ended, Leave
    <3>3. ASSUME NEW c \in Callers, Handler(c) \/ Statement(c) \/ Broken(c) \/ \E t \in Timers : Fires(t, c)
          PROVE  UNCHANGED syncVars
      BY <3>3 DEF Handler, Statement, Broken, Fires
    <3>4. CASE \E t \in Timers : RoomTimer(t)  BY <3>4 DEF RoomTimer
    <3>5. ASSUME NEW s \in Stops, Begins(s) \/ StopModule(s) \/ CloseDatabase(s) \/ Completes(s)
          PROVE  UNCHANGED syncVars
      BY <3>5 DEF Begins, StopModule, CloseDatabase, Completes
    <3> QED  BY <1>3, <3>1, <3>2, <3>3, <3>4, <3>5 DEF Next, Acts, Stop
  <2> QED  BY <2>1, SyncUnchanged
<1> QED  BY <1>1, <1>2, <1>3

LEMMA SyncInitial == Init => SyncInv
<1> SUFFICES ASSUME Init PROVE SyncInv  OBVIOUS
<1>1. /\ global = Registered /\ guilds = Legacy /\ run = [r \in Runs |-> Unstarted] /\ synced = FALSE
      /\ syncFaults = 0
  BY DEF Init, SyncInit
<1>2. \A r \in Runs : run[r] = Unstarted  BY <1>1
<1>3. SyncTyped
  <2>1. run \in [Runs -> RunState]  BY <1>1, UnstartedTyped
  <2>2. syncFaults \in 0 .. MaxSyncFaults  BY <1>1, SyncAssumption
  <2>3. global \in Seen /\ DOMAIN guilds = Guilds /\ \A g \in Guilds : guilds[g] \in Seq(STRING)
    BY <1>1, SyncAssumption DEF Seen, Guilds
  <2> QED  BY <1>1, <2>1, <2>2, <2>3 DEF SyncTyped
<1>4. (\A r \in Runs : EachOK(r)) /\ SyncedMeansThere /\ AgainOK
  BY <1>1, <1>2, UnstartedTyped DEF EachOK, SyncedMeansThere, AgainOK, LastOK, Runs
<1>5. ASSUME NEW g \in Guilds PROVE GuildOK(g)
  <2>1. InOrder(guilds[g], g)  BY <1>1 DEF InOrder, Before
  <2>2. (\A r \in Runs : ~Cleans(r, g)) /\ ~Past(g)
    BY <1>2, UnstartedTyped DEF Cleans, Past, Passed, Runs
  <2> QED  BY <2>1, <2>2 DEF GuildOK
<1> QED  BY <1>3, <1>4, <1>5 DEF SyncInv

LEMMA SyncFollows == SyncInv => CommandsAreSynced
<1> SUFFICES ASSUME SyncInv PROVE NoLegacyLeft  BY DEF SyncInv, CommandsAreSynced
<1> SUFFICES ASSUME syncFaults = 0, run["ready"].at = "done", run["connect"].at \in {"idle", "done"}, NEW g \in Guilds
             PROVE  Bare(g)
  BY DEF NoLegacyLeft, Bare, Own
<1>1. GuildOK(g) /\ AgainOK  BY DEF SyncInv
<1>2. Past(g)  BY <1>1 DEF AgainOK, LastOK, Past, Passed
<1>3. \A r \in Runs : ~Exact(r, g)  BY DEF Exact, Cleans, Runs
<1> QED  BY <1>1, <1>2, <1>3 DEF GuildOK

-----------------------------------------------------------------------------
(* What holds of the process.                                              *)

LEMMA Invariant == Spec => [](DbFormed /\ LifeInv /\ SyncInv)
<1>1. Init => DbFormed /\ LifeInv /\ SyncInv  BY ProcessInit, SyncInitial
<1>2. DbFormed /\ LifeInv /\ SyncInv /\ [Next]_vars => (DbFormed /\ LifeInv /\ SyncInv)'
  BY ProcessStep, SyncStep
<1> QED  BY <1>1, <1>2, PTL DEF Spec

\* The variables of the three parts keep their types (bootstrap.py, connection.py,
\* global_application_command_sync_service.py).
THEOREM TypeCorrect == Spec => []TypeOK
<1>1. DbFormed => DbTypeOK
  <2> SUFFICES ASSUME DbFormed PROVE DbTypeOK  OBVIOUS
  <2>1. DbTyped  BY DEF DbFormed
  <2>2. op \in [Callers -> [kind : Kinds, stage : Stages, tries : 0 .. Attempts, on : 0 .. opened,
                            id : 0 .. Len(table)]]
    <3>1. ASSUME NEW c \in Callers
          PROVE op[c] \in [kind : Kinds, stage : Stages, tries : 0 .. Attempts, on : 0 .. opened, id : 0 .. Len(table)]
      <4>1. op[c] \in Op /\ op[c].on <= opened /\ op[c].id <= Len(table) /\ opened \in Nat /\ Len(table) \in Nat
        BY <2>1 DEF DbTyped
      <4>2. op[c].on \in 0 .. opened /\ op[c].id \in 0 .. Len(table)  BY <4>1 DEF Op
      <4> QED  BY <4>1, <4>2 DEF Op
    <3> QED  BY <2>1, <3>1 DEF DbTyped
  <2> QED  BY <2>1, <2>2 DEF DbTyped, DbTypeOK
<1>2. LifeInv /\ SyncInv => SyncTypeOK
  BY DEF SyncInv, SyncTyped, RunState, Seen, Ats, SyncTypeOK
<1>3. DbFormed /\ LifeInv /\ SyncInv => TypeOK  BY <1>1, <1>2 DEF LifeInv, LifeTyped, TypeOK
<1> QED  BY <1>3, Invariant, PTL

\* The id that an INSERT answers is that of the caller's own row, however many callers share the
\* connection and whatever fails or is repeated (connection.py:123-139).
THEOREM RowIdIsOwn == Spec => []OwnRowId
<1>1. DbFormed => OwnRowId  BY DbFollows
<1> QED  BY <1>1, Invariant, PTL

\* After close() no connection is left open, although operations wait for the lock or for their
\* next attempt (connection.py:60, :99).
THEOREM ConnectionsClosed == Spec => []NoConnectionLeft
<1>1. DbFormed => NoConnectionLeft  BY DbFollows
<1> QED  BY <1>1, Invariant, PTL

\* When the process ends by itself, the bot is closed and the database too, whichever of the signals
\* and the finally clause has stopped them (bootstrap.py:118-130, :210).
THEOREM ExitIsClean == Spec => []CleanExit
<1>1. LifeInv => CleanExit  BY CleanFollows
<1> QED  BY <1>1, Invariant, PTL

\* The flag says that every command is there; after the first on_ready no guild has a copy of one,
\* although two runs delete from the same lists (bot.py:82-109,
\* global_application_command_sync_service.py:109).
THEOREM CommandsSynced == Spec => []CommandsAreSynced
<1>1. SyncInv => CommandsAreSynced  BY SyncFollows
<1> QED  BY <1>1, Invariant, PTL
=============================================================================

------------------------------ MODULE Database ------------------------------
(***************************************************************************)
(* DatabaseManager and BaseRepository: one PostgreSQL connection in          *)
(* autocommit that every coroutine of the bot shares.  An operation holds    *)
(* the operation lock for one attempt, and waits without it before the next. *)
(*                                                                         *)
(* A caller is a coroutine that runs one statement.  PostgreSQL and the      *)
(* network fail as they like, MaxFaults times: before or after a statement   *)
(* took effect, with an error that is repeated (a connection exception of    *)
(* class 08, a serialization failure, a deadlock) or with another one.       *)
(***************************************************************************)
EXTENDS Integers, Sequences, FiniteSets

CONSTANTS Callers,
          Statements, \* caller |-> what it may run, of Kinds
          Attempts,   \* retry_attempts
          MaxFaults

\* An INSERT of a row with a number of a sequence, one whose key the caller gives ("keyed": messages,
\* roles), one that takes a number although ON CONFLICT keeps the row there is; and other statements.
Kinds == {"insert", "keyed", "conflict", "other"}

ASSUME DatabaseAssumption ==
    /\ Attempts \in Nat \ {0} /\ MaxFaults \in Nat /\ "nobody" \notin Callers
    /\ Statements \in [Callers -> SUBSET Kinds]

VARIABLES connection, \* _connection: its number, or None
          opened,     \* how many connections there have been
          lost,       \* those the server or the bot has closed
          lastval,    \* connection |-> the number its session has taken last, 0 if none
          lock,       \* the holder of _operation_lock
          closing,    \* _closing
          closed,     \* whether close() has ended
          table,      \* the numbers taken: who has inserted a row with each, if somebody has
          op,         \* caller |-> his statement
          faults

dbVars == <<connection, opened, lost, lastval, lock, closing, closed, table, op, faults>>

-----------------------------------------------------------------------------
None == 0
Nobody == "nobody"
Stages == {"idle", "lock", "connect", "execute", "lastval", "sleep", "ok", "raised"}
Idle == [kind |-> "other", stage |-> "idle", tries |-> 0, on |-> None, id |-> 0]

Fail == faults < MaxFaults /\ faults' = faults + 1
Open == connection # None /\ connection \notin lost
At(c, stage) == op[c].stage = stage
To(c, stage) == op' = [op EXCEPT ![c].stage = stage]
Raised(c) == op' = [op EXCEPT ![c] = [Idle EXCEPT !.stage = "raised"]]

DbInit ==
    /\ connection = None /\ opened = 0 /\ lost = {} /\ lastval = <<>>
    /\ lock = Nobody /\ closing = FALSE /\ closed = FALSE
    /\ table = <<>> /\ op = [c \in Callers |-> Idle] /\ faults = 0

-----------------------------------------------------------------------------
\* A statement is run.
Call(c) ==
    /\ At(c, "idle")
    /\ \E kind \in Statements[c] : op' = [op EXCEPT ![c] = [Idle EXCEPT !.kind = kind, !.stage = "lock"]]
    /\ UNCHANGED <<connection, opened, lost, lastval, lock, closing, closed, table, faults>>

\* connect() looks at _closing first.
\* Mutation: it does not.
Refused_Never == FALSE

Refused == closing

Acquire(c) ==
    /\ At(c, "lock") /\ lock = Nobody
    /\ IF Refused THEN Raised(c) /\ UNCHANGED lock
       ELSE /\ lock' = c
            /\ IF Open THEN op' = [op EXCEPT ![c].stage = "execute", ![c].on = connection]
               ELSE To(c, "connect")
    /\ UNCHANGED <<connection, opened, lost, lastval, closing, closed, table, faults>>

\* connect(): its own attempts are one step, which succeeds or gives up with a ConnectionError,
\* which _with_retry does not repeat.
Connect(c) ==
    /\ At(c, "connect")
    /\ \/ /\ connection' = opened + 1 /\ opened' = opened + 1
          /\ lastval' = Append(lastval, 0)
          /\ op' = [op EXCEPT ![c].stage = "execute", ![c].on = opened + 1]
          /\ UNCHANGED <<lock, faults>>
       \/ /\ Fail
          /\ Raised(c) /\ lock' = Nobody
          /\ UNCHANGED <<connection, opened, lastval>>
    /\ UNCHANGED <<lost, closing, closed, table>>

\* An attempt is over: the caller has his answer.
Answered(c, stage, id) ==
    /\ op' = [op EXCEPT ![c] = [Idle EXCEPT !.kind = op[c].kind, !.stage = stage, !.id = id]]
    /\ lock' = Nobody

\* The lock is kept for SELECT LASTVAL.
\* Mutation: released after the INSERT, and not taken again.
AfterInsert_Free(c) == Nobody

AfterInsert(c) == c

Inserts(c) == op[c].kind # "other"
Numbers(c) == op[c].kind \in {"insert", "conflict"}
Inserted(c) ==
    /\ table' = IF Numbers(c) THEN Append(table, IF op[c].kind = "insert" THEN c ELSE Nobody) ELSE table
    /\ lastval' = IF Numbers(c) THEN [lastval EXCEPT ![op[c].on] = Len(table) + 1] ELSE lastval

Execute(c) ==
    /\ At(c, "execute") /\ op[c].on \notin lost
    /\ Inserted(c)
    /\ IF Inserts(c) THEN To(c, "lastval") /\ lock' = AfterInsert(c) ELSE Answered(c, "ok", 0)
    /\ UNCHANGED <<connection, opened, lost, closing, closed, faults>>

\* 0 is None: ObjectNotInPrerequisiteState of a session that has taken no number yet.
LastVal(c) ==
    /\ At(c, "lastval") /\ op[c].on \notin lost
    /\ Answered(c, "ok", lastval[op[c].on])
    /\ UNCHANGED <<connection, opened, lost, lastval, closing, closed, table, faults>>

\* An error that is repeated: the lock is released, the connection given up when it is broken
\* (_invalidate_connection_if_broken), and the caller waits, or raises after the last attempt.
Retried(c) ==
    IF op[c].tries + 1 >= Attempts THEN Raised(c)
    ELSE op' = [op EXCEPT ![c].tries = @ + 1, ![c].stage = "sleep", ![c].on = None]

Invalidated(broken) ==
    IF broken THEN connection' = None /\ lost' = lost \cup {connection}
    ELSE UNCHANGED <<connection, lost>>

\* The statement may have taken effect although its answer does not come; a serialization failure
\* and a deadlock undo it.
Break(c) ==
    /\ At(c, "execute") \/ At(c, "lastval")
    /\ Fail
    /\ lock' = Nobody
    /\ \E applied, broken, repeated \in BOOLEAN :
         /\ applied => At(c, "execute")
         /\ repeated /\ applied => broken
         /\ IF applied THEN Inserted(c) ELSE UNCHANGED <<table, lastval>>
         /\ IF repeated THEN Retried(c) /\ Invalidated(broken)
            ELSE /\ Raised(c)
                 /\ lost' = IF broken THEN lost \cup {op[c].on} ELSE lost
                 /\ UNCHANGED connection
    /\ UNCHANGED <<opened, closing, closed>>

Again(c) ==
    /\ At(c, "sleep")
    /\ To(c, "lock")
    /\ UNCHANGED <<connection, opened, lost, lastval, lock, closing, closed, table, faults>>

-----------------------------------------------------------------------------
\* connect() of initialize(), before there are other callers
Initialize ==
    /\ connection' = opened + 1 /\ opened' = opened + 1
    /\ lastval' = Append(lastval, 0)
    /\ UNCHANGED <<lost, lock, closing, closed, table, op>>

\* close(): the flag first, then the lock.
BeginClose ==
    /\ closing' = TRUE
    /\ UNCHANGED <<connection, opened, lost, lastval, lock, closed, table, op, faults>>

EndClose ==
    /\ closing /\ ~closed /\ lock = Nobody
    /\ closed' = TRUE
    /\ connection' = None
    /\ lost' = IF connection = None THEN lost ELSE lost \cup {connection}
    /\ UNCHANGED <<opened, lastval, lock, closing, table, op, faults>>

Operation(c) == Acquire(c) \/ Connect(c) \/ Execute(c) \/ LastVal(c) \/ Again(c)

-----------------------------------------------------------------------------
(* Properties.                                                             *)

DbTypeOK ==
    /\ connection \in 0 .. opened /\ lost \subseteq 1 .. opened /\ Len(lastval) = opened
    /\ lock \in Callers \cup {Nobody} /\ closing \in BOOLEAN /\ closed \in BOOLEAN
    /\ table \in Seq(Callers \cup {Nobody})
    /\ op \in [Callers -> [kind : Kinds, stage : Stages, tries : 0 .. Attempts, on : 0 .. opened,
                           id : 0 .. Len(table)]]
    /\ faults \in 0 .. MaxFaults

\* The id that the INSERT of a numbered row answers is that of a row it has inserted, whoever else
\* inserts, into whatever table, and whatever is repeated (connection.py:123-139): punishments and
\* events are found by it.
OwnRowId == \A c \in Callers : At(c, "ok") /\ op[c].kind = "insert" => op[c].id # 0 /\ table[op[c].id] = c

\* When close() has ended, every connection there has been is closed, although operations were
\* waiting for the lock or for their next attempt (connection.py:60, :99).
NoConnectionLeft == closed => 1 .. opened \subseteq lost

=============================================================================

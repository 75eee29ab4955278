---------------------------- MODULE ReviewRegister ----------------------------
(***************************************************************************)
(* What the review desk promises, as if every save were one step: an item is *)
(* a list of rows that only grows, each row but the first a correction of   *)
(* the one before.  A correction that resolves the item has been reported;  *)
(* the audit is an excerpt of the corrections that were made, and no         *)
(* correction is in it twice.                                               *)
(***************************************************************************)
EXTENDS Naturals, Sequences

CONSTANTS Messages, Users, Actions

VARIABLES rows,      \* message |-> the rows of its item, the oldest first
          audit,     \* the corrections that were audited
          reported   \* the resolutions that were reported

New(a) == [action |-> a, status |-> "OPEN", revision |-> 1]
Reported(m, revision) == \E f \in reported : f.message = m /\ f.revision = revision
Audited(m, revision) == \E h \in audit : h.payload.message = m /\ h.payload.revision = revision

Init == rows = [m \in Messages |-> <<>>] /\ audit = {} /\ reported = {}

\* Messages without an item get one.
Open(proposed) ==
    /\ \A m \in DOMAIN proposed : rows[m] = <<>>
    /\ rows' = [m \in Messages |-> IF m \in DOMAIN proposed THEN <<New(proposed[m])>> ELSE rows[m]]
    /\ UNCHANGED <<audit, reported>>

\* The last row is corrected, by one who has seen it.
Correct(m, a, status) ==
    /\ rows[m] # <<>>
    /\ status = "RESOLVED" => Reported(m, Len(rows[m]))
    /\ rows' = [rows EXCEPT ![m] = Append(@, [action |-> a, status |-> status, revision |-> Len(@) + 1])]
    /\ UNCHANGED <<audit, reported>>

\* A correction that was made is audited once or never, with the row it replaced.
Audit(m, r, u) ==
    /\ ~Audited(m, r)
    /\ audit' = audit \cup
          {[payload |-> [actor |-> u, message |-> m, revision |-> r,
                         action |-> rows[m][r + 1].action, status |-> rows[m][r + 1].status],
            before |-> rows[m][r]]}
    /\ UNCHANGED <<rows, reported>>

\* Of the resolutions of one revision that are reported, the first counts.
Tell(m, r, u, a) ==
    /\ ~Reported(m, r)
    /\ reported' = reported \cup {[message |-> m, revision |-> r, action |-> a, actor |-> u]}
    /\ UNCHANGED <<rows, audit>>

Next ==
    \/ \E ms \in SUBSET Messages : \E proposed \in [ms -> Actions] : Open(proposed)
    \/ \E m \in Messages, a \in Actions, status \in {"OPEN", "RESOLVED"} : Correct(m, a, status)
    \/ \E m \in Messages, u \in Users : \E r \in 1 .. Len(rows[m]) :
          \/ r < Len(rows[m]) /\ Audit(m, r, u)
          \/ \E a \in Actions : Tell(m, r, u, a)

Spec == Init /\ [][Next]_<<rows, audit, reported>>
=============================================================================

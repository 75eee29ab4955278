------------------------------ MODULE GuildProofs ------------------------------
(***************************************************************************)
(* What holds of what administrators set up in a guild: of its role panels,  *)
(* for every number of administrators, panels, buttons and failures; and of  *)
(* its settings, for every number of forms, commands and pages at a time.    *)
(***************************************************************************)
EXTENDS RolePanels, TLAPS, FiniteSetTheorems, SequenceTheorems, WellFoundedInduction

CONSTANTS Values, Nil, Forms, Editors, Sections, Saves, Channels
VARIABLES welcome, form, greeting, policy, edit, covered, save

Guild == INSTANCE GuildSettings WITH None <- Nil


-----------------------------------------------------------------------------
(* What the operators on buttons return.                                    *)

LEMMA LeastIs ==
  ASSUME NEW S, S \subseteq Nat, S # {}
  PROVE  Min(S) \in S
<1>1. PICK x \in S : \A y \in S : ~(<<y, x>> \in OpToRel(<, Nat))  BY NatLessThanWellFounded, WFMin
<1>2. \A y \in S : ~(y < x)  BY <1>1 DEF OpToRel
<1>3. \A y \in S : x <= y  BY <1>2
<1> QED  BY <1>3 DEF Min

LEMMA VisibleIs ==
  ASSUME NEW S, NEW bs \in Seq(S)
  PROVE  Visible(bs) \in Seq(S) /\ (bs # <<>> => Visible(bs) # <<>>)
<1>1. Len(bs) \in Nat /\ MAX_PANEL_ITEMS \in Nat \ {0}  BY RolePanelsAssumption
<1>2. Min({Len(bs), MAX_PANEL_ITEMS}) \in {Len(bs), MAX_PANEL_ITEMS}  BY <1>1, LeastIs
<1>3. PICK n \in Nat : n = Min({Len(bs), MAX_PANEL_ITEMS}) /\ n <= Len(bs) /\ (Len(bs) > 0 => n > 0)
  BY <1>1, <1>2 DEF Min
<1>4. \A i \in 1 .. n : bs[i] \in S  BY <1>3
<1>5. SubSeq(bs, 1, n) \in Seq(S) /\ Len(SubSeq(bs, 1, n)) = IF 1 <= n THEN n - 1 + 1 ELSE 0
  BY <1>4, SubSeqProperties
<1>6. bs # <<>> => SubSeq(bs, 1, n) # <<>>  BY <1>3, <1>5
<1> QED  BY <1>3, <1>5, <1>6 DEF Visible

LEMMA RemoveIs ==
  ASSUME NEW S, NEW bs \in Seq(S), NEW i \in DOMAIN bs
  PROVE  /\ RemoveAt(bs, i) \in Seq(S) /\ Len(RemoveAt(bs, i)) = Len(bs) - 1
         /\ \A j \in 1 .. Len(bs) - 1 : RemoveAt(bs, i)[j] = IF j < i THEN bs[j] ELSE bs[j + 1]
<1>1. Len(bs) \in Nat /\ i \in 1 .. Len(bs) /\ \A j \in 1 .. Len(bs) : bs[j] \in S  OBVIOUS
<1>2. PICK a, b : a = SubSeq(bs, 1, i - 1) /\ b = SubSeq(bs, i + 1, Len(bs))  OBVIOUS
<1>3. /\ a \in Seq(S) /\ Len(a) = IF 1 <= i - 1 THEN i - 1 - 1 + 1 ELSE 0
      /\ \A j \in 1 .. i - 1 - 1 + 1 : a[j] = bs[1 + j - 1]
  BY <1>1, <1>2, SubSeqProperties
<1>4. /\ b \in Seq(S) /\ Len(b) = IF i + 1 <= Len(bs) THEN Len(bs) - (i + 1) + 1 ELSE 0
      /\ \A j \in 1 .. Len(bs) - (i + 1) + 1 : b[j] = bs[i + 1 + j - 1]
  BY <1>1, <1>2, SubSeqProperties
<1>5. Len(a) = i - 1 /\ Len(b) = Len(bs) - i  BY <1>1, <1>3, <1>4
<1>6. PICK s : s = a \o b  OBVIOUS
<1>7. /\ s \in Seq(S) /\ Len(s) = Len(a) + Len(b)
      /\ \A j \in 1 .. Len(a) + Len(b) : s[j] = IF j <= Len(a) THEN a[j] ELSE b[j - Len(a)]
  BY <1>3, <1>4, <1>6, ConcatProperties
<1>8. ASSUME NEW j \in 1 .. Len(bs) - 1  PROVE s[j] = IF j < i THEN bs[j] ELSE bs[j + 1]
  <2>1. CASE j < i
    <3>1. s[j] = a[j]  BY <1>1, <1>5, <1>7, <2>1
    <3>2. a[j] = bs[1 + j - 1]  BY <1>1, <1>3, <2>1
    <3>3. 1 + j - 1 = j  OBVIOUS
    <3> QED  BY <2>1, <3>1, <3>2, <3>3
  <2>2. CASE j >= i
    <3>1. PICK k \in Int : k = j - (i - 1)  BY <1>1
    <3>2. j \in 1 .. Len(a) + Len(b) /\ ~(j <= Len(a)) /\ k = j - Len(a)  BY <1>1, <1>5, <2>2, <3>1
    <3>3. s[j] = b[k]  BY <1>7, <3>2
    <3>4. k \in 1 .. Len(bs) - (i + 1) + 1 /\ i + 1 + k - 1 = j + 1  BY <1>1, <2>2, <3>1
    <3>5. b[k] = bs[j + 1]  BY <1>4, <3>4
    <3> QED  BY <1>1, <2>2, <3>3, <3>5
  <2> QED  BY <1>1, <2>1, <2>2
<1>9. RemoveAt(bs, i) = s  BY <1>2, <1>6 DEF RemoveAt
<1> QED  BY <1>1, <1>5, <1>7, <1>8, <1>9

\* The library's sequence of a finite set has its members.
LEMMA ListIs ==
  ASSUME NEW S, IsFiniteSet(S)
  PROVE  SetToSeq(S) \in Seq(S)
<1>1. Cardinality(S) \in Nat /\ ExistsBijection(1 .. Cardinality(S), S)  BY FS_CardinalityType
<1>2. \E f \in [1 .. Cardinality(S) -> S] : IsInjective(f)
  BY <1>1 DEF ExistsBijection, Bijection, Injection, IsInjective
<1>3. SetToSeq(S) \in [1 .. Cardinality(S) -> S]  BY <1>2 DEF SetToSeq
<1> QED  BY <1>1, <1>3

-----------------------------------------------------------------------------
(* What panels, messages, memory and processes hold, if all their roles are of K. *)

ButtonIn(K) == [role : K, emoji : Emojis]
Once(bs) == \A i, j \in DOMAIN bs : bs[i].role = bs[j].role => i = j

RowIn(K) == [mode : Modes, view : Seq(ButtonIn(K)), last : Seq(ButtonIn(K))]
RowsIn(K) ==
    /\ DOMAIN rows \subseteq Messages /\ DOMAIN buttons = DOMAIN rows
    /\ \A m \in DOMAIN rows : rows[m] \in RowIn(K) /\ buttons[m] \in Seq(ButtonIn(K)) /\ Once(buttons[m])

FaceIn(K) == [embed : Seq(ButtonIn(K)), components : Seq(ButtonIn(K))]
PostedIn(K) == \A m \in DOMAIN posted : posted[m] \in FaceIn(K)
HandledIn(K) == \A m \in DOMAIN handled : handled[m] \subseteq K
HeardIn(K) == \A m \in DOMAIN listener : \A e \in DOMAIN listener[m] : listener[m][e] \in K
ShownIn(K) == PostedIn(K) /\ HandledIn(K) /\ HeardIn(K)

HadIn(K) == auto \subseteq K /\ has \in [Members -> SUBSET K]

Steps == {"idle", "row", "add", "insert", "take", "rebuild", "rebuilt", "strip", "update", "read", "list", "edit",
          "register", "listen", "heard", "store", "forget", "ensure", "ensured", "mark", "panel", "look", "blank",
          "probe", "erase", "drop"}
\* At these, a command has a role in hand.
Carrying == {"row", "add", "insert", "take", "rebuild", "rebuilt", "strip"}
Kinds == {None, "create", "add", "remove", "delete", "refresh", "hear", "clean"}
Todo(K, p) == IF p \in Admins THEN ButtonIn(K) ELSE Messages
JobIn(K, p) == [kind : Kinds, step : Steps, m : Messages \cup {0}, todo : Seq(Todo(K, p)), mode : Modes,
                view : Seq(ButtonIn(K)), seen : Seq(ButtonIn(K)), heard : Seq(ButtonIn(K))]
JobOK(K, p, job) == job \in JobIn(K, p) /\ (p \in Admins /\ job.step \in Carrying => job.todo # <<>>)
JobsIn(K) == DOMAIN jobs = Processes /\ \A p \in Processes : JobOK(K, p, jobs[p])

RolesIn(K) == RowsIn(K) /\ ShownIn(K) /\ HadIn(K) /\ JobsIn(K)

TableOK ==
    /\ table \in [Roles -> {"unknown", "hidden", "public"}] /\ safe \subseteq Roles /\ cleaner \in BOOLEAN
    /\ spent \in [panels : Nat, edits : Nat, changes : Nat, faults : Nat] /\ spent.panels <= MaxPanels

\* A panel gets its row once, from the command that posted its message.
Born ==
    /\ \A m \in DOMAIN rows : m <= spent.panels
    /\ \A a \in Admins : jobs[a].step = "row" =>
          /\ jobs[a].m \in 1 .. spent.panels /\ jobs[a].m \notin DOMAIN rows
          /\ \A b \in Admins \ {a} : jobs[b].step = "row" => jobs[b].m # jobs[a].m

PanelsInv == TableOK /\ Born /\ RolesIn(Known)

-----------------------------------------------------------------------------
(* Processes.                                                              *)

LEMMA LoopsAre == \A p \in Processes \ Admins : p \in {"refresh", "clean"}
  BY DEF Processes

LEMMA LoopsAreNot ==
    {"refresh", "clean"} \subseteq Processes /\ Admins \subseteq Processes /\ "refresh" \notin Admins /\ "clean" \notin Admins
  BY RolePanelsAssumption DEF Processes

LEMMA IdleOK == ASSUME NEW K, NEW p \in Processes  PROVE JobOK(K, p, Idle)
  BY DEF JobOK, JobIn, Idle, Kinds, Steps, Carrying, Modes

LEMMA JobMoves ==
  ASSUME NEW K, JobsIn(K), NEW p \in Processes, NEW job, JobOK(K, p, job), jobs' = [jobs EXCEPT ![p] = job]
  PROVE  JobsIn(K)'
  BY DEF JobsIn

LEMMA Going ==
  ASSUME NEW K, JobsIn(K), NEW p \in Processes, NEW step \in Steps, Goes(p, step),
         p \in Admins /\ step \in Carrying => jobs[p].todo # <<>>
  PROVE  JobsIn(K)'
<1>1. PICK job : job = jobs[p]  OBVIOUS
<1>2. JobOK(K, p, job)  BY <1>1 DEF JobsIn
<1>3. PICK next : next = [job EXCEPT !.step = step]  OBVIOUS
<1>4. JobOK(K, p, next)  BY <1>1, <1>2, <1>3 DEF JobOK, JobIn
<1>5. jobs' = [jobs EXCEPT ![p] = next]  BY <1>1, <1>3 DEF Goes
<1> QED  BY <1>4, <1>5, JobMoves

LEMMA OnwardOK ==
  ASSUME NEW K, NEW p \in {"refresh", "clean"}, NEW todo \in Seq(Messages)
  PROVE  JobOK(K, p, Onward(p, todo))
<1>1. p \notin Admins /\ p \in Processes  BY LoopsAreNot
<1>2. CASE todo = <<>>  BY <1>1, <1>2, IdleOK DEF Onward
<1>3. CASE todo # <<>>
  <2>1. Head(todo) \in Messages /\ Tail(todo) \in Seq(Messages)  BY <1>3
  <2>2. Onward(p, todo) = [kind |-> p, step |-> IF p = "clean" THEN "probe" ELSE "panel", m |-> Head(todo),
                           todo |-> Tail(todo), mode |-> "buttons", view |-> <<>>, seen |-> <<>>, heard |-> <<>>]
    BY <1>3 DEF Onward, Idle
  <2> QED  BY <1>1, <2>1, <2>2 DEF JobOK, JobIn, Todo, Kinds, Steps, Modes
<1> QED  BY <1>2, <1>3

LEMMA Ending ==
  ASSUME NEW K, JobsIn(K), NEW p \in Processes, Ends(p)
  PROVE  JobsIn(K)'
<1>1. CASE p \in Admins
  <2>1. jobs' = [jobs EXCEPT ![p] = Idle]  BY <1>1 DEF Ends
  <2> QED  BY <2>1, IdleOK, JobMoves
<1>2. CASE p \notin Admins
  <2>1. p \in {"refresh", "clean"} /\ jobs[p].todo \in Seq(Messages)  BY <1>2, LoopsAre DEF JobsIn, JobOK, JobIn, Todo
  <2>2. PICK job : job = Onward(p, jobs[p].todo)  OBVIOUS
  <2>3. JobOK(K, p, job)  BY <2>1, <2>2, OnwardOK
  <2>4. jobs' = [jobs EXCEPT ![p] = job]  BY <1>2, <2>2 DEF Ends
  <2> QED  BY <2>3, <2>4, JobMoves
<1> QED  BY <1>1, <1>2

\* A command has its next role in hand, or needs none.
LEMMA NextRoleOK ==
  ASSUME NEW K, JobsIn(K), NEW a \in Admins, jobs[a].step \in Carrying, NextRole(a)
  PROVE  JobsIn(K)'
<1>1. PICK job : job = jobs[a]  OBVIOUS
<1>2. JobOK(K, a, job) /\ a \in Processes  BY <1>1, LoopsAreNot DEF JobsIn
<1>3. PICK todo : todo = IF job.kind = "create" THEN Tail(job.todo) ELSE job.todo  OBVIOUS
<1>4. job.todo \in Seq(ButtonIn(K)) /\ job.todo # <<>> /\ todo \in Seq(ButtonIn(K))
      /\ (Len(job.todo) > 1 => todo # <<>>)
  <2>1. job.todo \in Seq(ButtonIn(K)) /\ job.todo # <<>>  BY <1>1, <1>2 DEF JobOK, JobIn, Todo
  <2>2. PICK t : t = Tail(job.todo)  OBVIOUS
  <2>3. t \in Seq(ButtonIn(K)) /\ Len(t) = Len(job.todo) - 1  BY <2>1, <2>2, HeadTailProperties
  <2>4. Len(job.todo) > 1 => t # <<>>  BY <2>1, <2>3
  <2> QED  BY <1>3, <2>1, <2>2, <2>3, <2>4
<1>5. PICK next : next = [job EXCEPT !.step = AfterRole(job), !.todo = todo]  OBVIOUS
<1>6. AfterRole(job) \in Steps /\ (AfterRole(job) \in Carrying => todo # <<>>)
  BY <1>3, <1>4 DEF AfterRole, Steps, Carrying
<1>7. JobOK(K, a, next)  BY <1>2, <1>4, <1>5, <1>6 DEF JobOK, JobIn, Todo
<1>8. jobs' = [jobs EXCEPT ![a] = next]  BY <1>1, <1>3, <1>5 DEF NextRole
<1> QED  BY <1>2, <1>7, <1>8, JobMoves

LEMMA ButtonsAre ==
  ASSUME NEW K, RowsIn(K), NEW m
  PROVE  ButtonsOf(m) \in Seq(ButtonIn(K))
  BY DEF RowsIn, ButtonsOf

\* Kinds of jobs, after what is read or asked.
LEMMA JobSet ==
  ASSUME NEW K, NEW p \in Processes, NEW job, JobOK(K, p, job)
  PROVE  /\ \A step \in Steps \ Carrying, seen \in Seq(ButtonIn(K)) :
              JobOK(K, p, [job EXCEPT !.step = step, !.seen = seen])
         /\ \A step \in Steps \ Carrying, view \in Seq(ButtonIn(K)), mode \in Modes :
              JobOK(K, p, [job EXCEPT !.view = view, !.mode = mode, !.step = step])
         /\ \A step \in Steps \ Carrying, view \in Seq(ButtonIn(K)), mode \in Modes, seen \in Seq(ButtonIn(K)) :
              JobOK(K, p, [job EXCEPT !.step = step, !.mode = mode, !.view = view, !.seen = seen])
         /\ \A seen \in Seq(ButtonIn(K)) : job.step \in Carrying =>
              JobOK(K, p, [job EXCEPT !.step = "rebuilt", !.seen = seen])
         /\ \A step \in Steps \ Carrying, heard \in Seq(ButtonIn(K)) :
              JobOK(K, p, [job EXCEPT !.step = step, !.heard = heard])
         /\ \A step \in Steps \ Carrying, view \in Seq(ButtonIn(K)), heard \in Seq(ButtonIn(K)) :
              JobOK(K, p, [job EXCEPT !.step = step, !.view = view, !.heard = heard])
         /\ \A step \in Steps \ Carrying, kind \in Kinds : JobOK(K, p, [job EXCEPT !.step = step, !.kind = kind])
<1>1. ASSUME NEW step \in Steps \ Carrying, NEW seen \in Seq(ButtonIn(K))
      PROVE  JobOK(K, p, [job EXCEPT !.step = step, !.seen = seen])
  BY DEF JobOK, JobIn
<1>2. ASSUME NEW step \in Steps \ Carrying, NEW view \in Seq(ButtonIn(K)), NEW mode \in Modes
      PROVE  JobOK(K, p, [job EXCEPT !.view = view, !.mode = mode, !.step = step])
  BY DEF JobOK, JobIn
<1>3. ASSUME NEW step \in Steps \ Carrying, NEW view \in Seq(ButtonIn(K)), NEW mode \in Modes,
             NEW seen \in Seq(ButtonIn(K))
      PROVE  JobOK(K, p, [job EXCEPT !.step = step, !.mode = mode, !.view = view, !.seen = seen])
  BY DEF JobOK, JobIn
<1>4. ASSUME NEW seen \in Seq(ButtonIn(K)), job.step \in Carrying
      PROVE  JobOK(K, p, [job EXCEPT !.step = "rebuilt", !.seen = seen])
  <2>1. "rebuilt" \in Steps /\ "rebuilt" \in Carrying  BY DEF Steps, Carrying
  <2> QED  BY <1>4, <2>1 DEF JobOK, JobIn
<1>5. ASSUME NEW step \in Steps \ Carrying, NEW heard \in Seq(ButtonIn(K))
      PROVE  JobOK(K, p, [job EXCEPT !.step = step, !.heard = heard])
  BY DEF JobOK, JobIn
<1>6. ASSUME NEW step \in Steps \ Carrying, NEW view \in Seq(ButtonIn(K)), NEW heard \in Seq(ButtonIn(K))
      PROVE  JobOK(K, p, [job EXCEPT !.step = step, !.view = view, !.heard = heard])
  BY DEF JobOK, JobIn
<1>7. ASSUME NEW step \in Steps \ Carrying, NEW kind \in Kinds
      PROVE  JobOK(K, p, [job EXCEPT !.step = step, !.kind = kind])
  BY DEF JobOK, JobIn
<1> QED  BY <1>1, <1>2, <1>3, <1>4, <1>5, <1>6, <1>7

LEMMA Writing ==
  ASSUME NEW K, RowsIn(K), JobsIn(K), NEW a \in Admins, Writes(a)
  PROVE  JobsIn(K)'
<1>1. a \in Processes /\ JobOK(K, a, jobs[a])  BY LoopsAreNot DEF JobsIn
<1>2. jobs[a].step \in Carrying /\ jobs[a].todo # <<>>
  BY <1>1 DEF Writes, WriteRow, Count, Insert, Take, Rebuild, Rebuilt, Strip, JobOK, Carrying
<1>3. {"add", "insert", "rebuild", "strip", "update"} \subseteq Steps  BY DEF Steps
<1>4. CASE \E step \in {"add", "insert", "rebuild", "strip", "update"} : Goes(a, step)
  BY <1>1, <1>2, <1>3, <1>4, Going
<1>5. CASE Ends(a)  BY <1>1, <1>5, Ending
<1>6. CASE NextRole(a)  BY <1>2, <1>6, NextRoleOK
<1>7. CASE Rebuild(a)
  <2>1. PICK seen \in Seq(ButtonIn(K)) : seen = ButtonsOf(jobs[a].m)  BY ButtonsAre
  <2>2. PICK job : job = [jobs[a] EXCEPT !.step = "rebuilt", !.seen = seen]  OBVIOUS
  <2>3. JobOK(K, a, job)  BY <1>1, <1>2, <2>2, JobSet
  <2>4. jobs' = [jobs EXCEPT ![a] = job]  BY <1>7, <2>1, <2>2 DEF Rebuild
  <2> QED  BY <1>1, <2>3, <2>4, JobMoves
<1> QED
  BY <1>4, <1>5, <1>6, <1>7
  DEF Writes, WriteRow, Count, Insert, Take, Rebuilt, Strip

\* A registration ends with the job, or with what follows it.
LEMMA Registering ==
  ASSUME NEW K, JobsIn(K), NEW p \in Processes, Registered(p)
  PROVE  JobsIn(K)'
<1>1. CASE Ends(p)  BY <1>1, Ending
<1>2. CASE jobs[p].kind # "hear"
  <2>1. JobOK(K, p, jobs[p])  BY DEF JobsIn
  <2>2. PICK step \in {"mark", "read", "edit"} : step = AfterRegister(jobs[p])  BY DEF AfterRegister
  <2>3. step \in Steps \ Carrying  BY DEF Steps, Carrying
  <2>4. PICK heard : heard = <<>>  OBVIOUS
  <2>5. heard \in Seq(ButtonIn(K))  BY <2>4
  <2>6. PICK job : job = [jobs[p] EXCEPT !.step = step, !.heard = heard]  OBVIOUS
  <2>7. JobOK(K, p, job)  BY <2>1, <2>3, <2>5, <2>6, JobSet
  <2>8. jobs' = [jobs EXCEPT ![p] = job]  BY <1>2, <2>2, <2>4, <2>6 DEF Registered
  <2> QED  BY <2>7, <2>8, JobMoves
<1> QED  BY <1>1, <1>2 DEF Registered

LEMMA Rendering ==
  ASSUME NEW K, RowsIn(K), JobsIn(K), NEW p \in Processes, Renders(p) \/ Erase(p) \/ Drop(p)
  PROVE  JobsIn(K)'
<1>1. {"register", "read", "mark", "ensure", "drop", "listen", "heard", "store", "forget", "ensured", "look"}
        \subseteq Steps \ Carrying
  BY DEF Steps, Carrying
<1>2. CASE \E step \in {"register", "read", "mark", "ensure", "drop", "listen", "store", "forget"} : Goes(p, step)
  BY <1>1, <1>2, Going
<1>3. CASE Ends(p)  BY <1>3, Ending
<1>4. CASE Registered(p)  BY <1>4, Registering
<1>5. JobOK(K, p, jobs[p])  BY DEF JobsIn
<1>6. CASE Listen(p) \/ Ensure(p)
  <2>1. PICK heard \in Seq(ButtonIn(K)) : heard = ButtonsOf(jobs[p].m)  BY ButtonsAre
  <2>2. PICK step \in {"heard", "ensured"} : jobs' = [jobs EXCEPT ![p].step = step, ![p].heard = heard]
    BY <1>6, <2>1 DEF Listen, Ensure
  <2>3. PICK job : job = [jobs[p] EXCEPT !.step = step, !.heard = heard]  OBVIOUS
  <2>4. JobOK(K, p, job)  BY <1>1, <1>5, <2>3, JobSet
  <2>5. jobs' = [jobs EXCEPT ![p] = job]  BY <2>2, <2>3
  <2> QED  BY <2>4, <2>5, JobMoves
<1>7. CASE Ensured(p)
  <2>1. PICK view \in Seq(ButtonIn(K)) : view = jobs[p].heard  BY <1>5 DEF JobOK, JobIn
  <2>2. PICK step \in {"look", "mark"} : step = IF jobs[p].kind = "refresh" THEN "look" ELSE "mark"  OBVIOUS
  <2>3. PICK heard : heard = <<>>  OBVIOUS
  <2>4. heard \in Seq(ButtonIn(K))  BY <2>3
  <2>5. PICK job : job = [jobs[p] EXCEPT !.step = step, !.view = view, !.heard = heard]  OBVIOUS
  <2>6. JobOK(K, p, job)  BY <1>1, <1>5, <2>4, <2>5, JobSet
  <2>7. jobs' = [jobs EXCEPT ![p] = job]  BY <1>7, <2>1, <2>2, <2>3, <2>5 DEF Ensured
  <2> QED  BY <2>6, <2>7, JobMoves
<1>8. CASE Edit(p)  BY <1>2, <1>3, <1>8 DEF Edit, AfterEdit
<1>9. CASE Register(p) \/ Hear(p) \/ Store(p) \/ Forget(p)
  BY <1>2, <1>3, <1>4, <1>9 DEF Register, Hear, Store, Forget
<1>10. CASE Mark(p) \/ Erase(p) \/ Drop(p)  BY <1>2, <1>3, <1>10 DEF Mark, Erase, Drop
<1> QED  BY <1>6, <1>7, <1>8, <1>9, <1>10 DEF Renders, Registers, Marks

LEMMA Reading ==
  ASSUME NEW K, RowsIn(K), JobsIn(K), NEW a \in Admins, GetPanel(a) \/ List(a)
  PROVE  JobsIn(K)'
<1>1. a \in Processes /\ JobOK(K, a, jobs[a])  BY LoopsAreNot DEF JobsIn
<1>2. {"register", "read", "mark", "edit", "list", "ensure"} \subseteq Steps \ Carrying  BY DEF Steps, Carrying
<1>3. CASE Ends(a)  BY <1>1, <1>3, Ending
<1>4. CASE GetPanel(a) /\ ~Ends(a)
  <2>1. jobs[a].m \in DOMAIN rows  BY <1>4 DEF GetPanel
  <2>2. PICK view \in Seq(ButtonIn(K)), mode \in Modes : view = rows[jobs[a].m].view /\ mode = Mode(jobs[a].m)
    BY <2>1 DEF RowsIn, RowIn, Mode
  <2>3. PICK step \in {"mark", "list", "ensure"} :
          step = IF jobs[a].step = "update" THEN "list" ELSE IF view = <<>> THEN "ensure" ELSE "mark"
    OBVIOUS
  <2>4. PICK job : job = [jobs[a] EXCEPT !.view = view, !.mode = mode, !.step = step]  OBVIOUS
  <2>5. JobOK(K, a, job)  BY <1>1, <1>2, <2>4, JobSet
  <2>6. jobs' = [jobs EXCEPT ![a] = job]  BY <1>4, <2>1, <2>2, <2>3, <2>4 DEF GetPanel
  <2> QED  BY <1>1, <2>5, <2>6, JobMoves
<1>5. CASE List(a)
  <2>1. PICK seen \in Seq(ButtonIn(K)) : seen = ButtonsOf(jobs[a].m)  BY ButtonsAre
  <2>2. PICK step \in {"read", "register", "edit"} :
          step = IF jobs[a].kind = "create" /\ jobs[a].mode = "buttons" /\ seen = <<>> THEN "read"
                 ELSE IF jobs[a].kind # "create" /\ jobs[a].mode = "reactions" THEN "register" ELSE "edit"
    OBVIOUS
  <2>3. PICK job : job = [jobs[a] EXCEPT !.step = step, !.seen = seen]  OBVIOUS
  <2>4. JobOK(K, a, job)  BY <1>1, <1>2, <2>3, JobSet
  <2>5. jobs' = [jobs EXCEPT ![a] = job]  BY <1>5, <2>1, <2>2, <2>3 DEF List
  <2> QED  BY <1>1, <2>4, <2>5, JobMoves
<1> QED  BY <1>3, <1>4, <1>5

LEMMA Looping ==
  ASSUME NEW K, RowsIn(K), JobsIn(K), Begin("refresh") \/ Begin("clean") \/ Panel \/ Look \/ Blank \/ Probe
  PROVE  JobsIn(K)'
<1>1. {"refresh", "clean"} \subseteq Processes /\ JobOK(K, "refresh", jobs["refresh"])  BY LoopsAreNot DEF JobsIn
<1>2. {"look", "ensure", "blank", "register", "edit", "drop"} \subseteq Steps \ Carrying /\ "hear" \in Kinds
  BY DEF Steps, Carrying, Kinds
<1>3. ASSUME NEW p \in {"refresh", "clean"}, Ends(p)  PROVE JobsIn(K)'  BY <1>1, <1>3, Ending
<1>4. ASSUME NEW p \in {"refresh", "clean"}, Begin(p)  PROVE JobsIn(K)'
  <2>1. DOMAIN rows \subseteq 1 .. MaxPanels /\ IsFiniteSet(1 .. MaxPanels)
    BY RolePanelsAssumption, FS_Interval DEF RowsIn, Messages
  <2>2. IsFiniteSet(DOMAIN rows)  BY <2>1, FS_Subset
  <2>3. PICK list : list = SetToSeq(DOMAIN rows)  OBVIOUS
  <2>4. list \in Seq(Messages)  BY <2>1, <2>2, <2>3, ListIs, SeqMonotonic DEF Messages
  <2>5. PICK job : job = Onward(p, list)  OBVIOUS
  <2>6. JobOK(K, p, job)  BY <2>4, <2>5, OnwardOK
  <2>7. jobs' = [jobs EXCEPT ![p] = job]  BY <1>4, <2>3, <2>5 DEF Begin
  <2> QED  BY <1>1, <2>6, <2>7, JobMoves
<1>5. CASE Panel /\ ~Ends("refresh")
  <2> DEFINE m == jobs["refresh"].m
  <2>1. m \in DOMAIN rows  BY <1>5 DEF Panel
  <2>2. rows[m] \in RowIn(K)  BY <2>1 DEF RowsIn
  <2>3. PICK view \in Seq(ButtonIn(K)), mode \in Modes, seen \in Seq(ButtonIn(K)), step \in {"look", "ensure"} :
          view = rows[m].view /\ mode = Mode(m) /\ seen = rows[m].last
          /\ step = IF rows[m].view = <<>> THEN "ensure" ELSE "look"
    BY <2>2 DEF RowIn, Mode
  <2>4. PICK job : job = [jobs["refresh"] EXCEPT !.step = step, !.mode = mode, !.view = view, !.seen = seen]  OBVIOUS
  <2>5. JobOK(K, "refresh", job)  BY <1>1, <1>2, <2>4, JobSet
  <2>6. jobs' = [jobs EXCEPT !["refresh"] = job]  BY <1>5, <2>1, <2>3, <2>4 DEF Panel
  <2> QED  BY <1>1, <2>5, <2>6, JobMoves
<1>6. CASE Look /\ ~Ends("refresh")
  <2>1. PICK seen \in Seq(ButtonIn(K)) : seen = ButtonsOf(jobs["refresh"].m)  BY ButtonsAre
  <2>2. \/ \E step \in {"blank", "edit"} : jobs' = [jobs EXCEPT !["refresh"].step = step, !["refresh"].seen = seen]
        \/ jobs' = [jobs EXCEPT !["refresh"].step = "register", !["refresh"].kind = "hear"]
    BY <1>6, <2>1 DEF Look
  <2>3. CASE jobs' = [jobs EXCEPT !["refresh"].step = "register", !["refresh"].kind = "hear"]
    <3>1. PICK job : job = [jobs["refresh"] EXCEPT !.step = "register", !.kind = "hear"]  OBVIOUS
    <3>2. JobOK(K, "refresh", job)  BY <1>1, <1>2, <3>1, JobSet
    <3>3. jobs' = [jobs EXCEPT !["refresh"] = job]  BY <2>3, <3>1
    <3> QED  BY <1>1, <3>2, <3>3, JobMoves
  <2>4. ASSUME NEW step \in {"blank", "edit"}, jobs' = [jobs EXCEPT !["refresh"].step = step, !["refresh"].seen = seen]
        PROVE  JobsIn(K)'
    <3>1. PICK job : job = [jobs["refresh"] EXCEPT !.step = step, !.seen = seen]  OBVIOUS
    <3>2. JobOK(K, "refresh", job)  BY <1>1, <1>2, <3>1, JobSet
    <3>3. jobs' = [jobs EXCEPT !["refresh"] = job]  BY <2>4, <3>1
    <3> QED  BY <1>1, <3>2, <3>3, JobMoves
  <2> QED  BY <2>2, <2>3, <2>4
<1>7. CASE Blank  BY <1>3, <1>7 DEF Blank
<1>8. CASE Probe
  <2>1. CASE Goes("clean", "drop")  BY <1>1, <1>2, <2>1, Going
  <2> QED  BY <1>3, <1>8, <2>1 DEF Probe
<1> QED  BY <1>3, <1>4, <1>5, <1>6, <1>7, <1>8

\* What is offered is known; what a job is asked for is what a panel or the offer had.
Asked(kind, step, m, todo, mode) ==
    [Idle EXCEPT !.kind = kind, !.step = step, !.m = m, !.todo = todo, !.mode = mode]

LEMMA AskedIs ==
  ASSUME NEW K, NEW a \in Admins, NEW kind \in {"create", "add", "remove", "delete"},
         NEW step \in {"row", "add", "take", "erase"}, NEW m \in Messages, NEW mode \in Modes,
         NEW todo \in Seq(ButtonIn(K)), todo # <<>> \/ step = "erase"
  PROVE  JobOK(K, a, Asked(kind, step, m, todo, mode))
<1>1. PICK job : job = Asked(kind, step, m, todo, mode)  OBVIOUS
<1>2. kind \in Kinds /\ step \in Steps /\ "erase" \notin Carrying  BY DEF Kinds, Steps, Carrying
<1>3. Idle \in JobIn(K, a)  BY IdleOK, LoopsAreNot DEF JobOK
<1>4. job \in JobIn(K, a) /\ job.todo = todo /\ job.step = step  BY <1>1, <1>2, <1>3 DEF JobIn, Todo, Asked
<1>5. JobOK(K, a, job)  BY <1>2, <1>4 DEF JobOK
<1> QED  BY <1>1, <1>5

LEMMA CreatedAre ==
  ASSUME NEW n, NEW bs \in SeqOf(Button, n), RolesOf(bs) \subseteq Offered
  PROVE  bs \in Seq([role : Known, emoji : Emojis])
<1>1. bs \in Seq(Button) /\ Len(bs) \in Nat /\ bs \in [1 .. Len(bs) -> Button]  BY DEF SeqOf
<1>2. ASSUME NEW i \in DOMAIN bs  PROVE bs[i] \in [role : Known, emoji : Emojis]
  <2>1. bs[i].role \in RolesOf(bs)  BY DEF RolesOf
  <2>2. bs[i].role \in Known  BY <2>1 DEF Offered, Known
  <2>3. bs[i] \in Button  BY <1>1
  <2> QED  BY <2>2, <2>3 DEF Button
<1>3. PICK S : S = [role : Known, emoji : Emojis]  OBVIOUS
<1>4. bs \in [1 .. Len(bs) -> S]  BY <1>1, <1>2, <1>3
<1>5. bs \in Seq(S)  BY <1>1, <1>4
<1> QED  BY <1>3, <1>5

LEMMA Asking ==
  ASSUME NEW K, Known \subseteq K, RowsIn(K), JobsIn(K), NEW a \in Admins,
         \/ \E bs \in SeqOf(Button, Cardinality(Roles)), mode \in Modes : Create(a, bs, mode)
         \/ \E m \in Messages : \/ \E b \in Button : AskAdd(a, m, b)
                                \/ AskDelete(a, m)
                                \/ \E i \in 1 .. Cardinality(Roles) : AskRemove(a, m, i)
  PROVE  JobsIn(K)'
<1>1. "buttons" \in Modes /\ a \in Processes  BY LoopsAreNot DEF Modes
<1>2. ASSUME NEW m \in Messages, NEW b \in Button, AskAdd(a, m, b)  PROVE JobsIn(K)'
  <2>1. b.role \in K  BY <1>2 DEF AskAdd, Offered, Known
  <2>2. b \in ButtonIn(K)  BY <2>1 DEF Button, ButtonIn
  <2>3. PICK todo : todo = <<b>>  OBVIOUS
  <2>4. todo \in Seq(ButtonIn(K)) /\ todo # <<>>  BY <2>2, <2>3
  <2>5. PICK job : job = Asked("add", "add", m, todo, "buttons")  OBVIOUS
  <2>6. JobOK(K, a, job)  BY <1>1, <2>4, <2>5, AskedIs
  <2>7. jobs' = [jobs EXCEPT ![a] = job]
    BY <2>5, <1>2, <2>3 DEF AskAdd, Asks, Asked
  <2> QED  BY <1>1, <2>6, <2>7, JobMoves
<1>3. ASSUME NEW m \in Messages, NEW i \in 1 .. Cardinality(Roles), AskRemove(a, m, i)  PROVE JobsIn(K)'
  <2>1. PICK b \in ButtonIn(K) : b = buttons[m][i]  BY <1>3 DEF AskRemove, RowsIn
  <2>2. PICK todo : todo = <<b>>  OBVIOUS
  <2>3. todo \in Seq(ButtonIn(K)) /\ todo # <<>>  BY <2>1, <2>2
  <2>4. PICK job : job = Asked("remove", "take", m, todo, "buttons")  OBVIOUS
  <2>5. JobOK(K, a, job)  BY <1>1, <2>3, <2>4, AskedIs
  <2>6. jobs' = [jobs EXCEPT ![a] = job]
    BY <2>4, <1>3, <2>1, <2>2 DEF AskRemove, Asks, Asked
  <2> QED  BY <1>1, <2>5, <2>6, JobMoves
<1>4. ASSUME NEW m \in Messages, AskDelete(a, m)  PROVE JobsIn(K)'
  <2>1. PICK todo : todo = <<>>  OBVIOUS
  <2>2. todo \in Seq(ButtonIn(K))  BY <2>1
  <2>3. PICK job : job = Asked("delete", "erase", m, todo, "buttons")  OBVIOUS
  <2>4. JobOK(K, a, job)  BY <1>1, <2>2, <2>3, AskedIs
  <2>5. jobs' = [jobs EXCEPT ![a] = job]
    BY <2>3, <1>4, <2>1 DEF AskDelete, Asks, Asked
  <2> QED  BY <1>1, <2>4, <2>5, JobMoves
<1>5. ASSUME NEW bs \in SeqOf(Button, Cardinality(Roles)), NEW mode \in Modes, Create(a, bs, mode)  PROVE JobsIn(K)'
  <2>1. bs \in Seq(ButtonIn(K)) /\ bs # <<>>
    <3>1. bs # <<>> /\ RolesOf(bs) \subseteq Offered  BY <1>5 DEF Create
    <3>2. bs \in Seq([role : Known, emoji : Emojis])  BY <3>1, CreatedAre
    <3>3. [role : Known, emoji : Emojis] \subseteq ButtonIn(K)  BY DEF ButtonIn
    <3> QED  BY <3>1, <3>2, <3>3, SeqMonotonic
  <2>2. PICK todo : todo = Visible(bs)  OBVIOUS
  <2>3. todo \in Seq(ButtonIn(K)) /\ todo # <<>>  BY <2>1, <2>2, VisibleIs
  <2>4. PICK m \in Messages : m = spent.panels + 1  BY <1>5 DEF Create
  <2>5. PICK job : job = Asked("create", "row", m, todo, mode)  OBVIOUS
  <2>6. JobOK(K, a, job)  BY <1>1, <2>3, <2>5, AskedIs
  <2>7. jobs' = [jobs EXCEPT ![a] = job]
    BY <2>5, <1>5, <2>2, <2>4 DEF Create, Asked
  <2> QED  BY <1>1, <2>6, <2>7, JobMoves
<1> QED  BY <1>2, <1>3, <1>4, <1>5

LEMMA Failing ==
  ASSUME NEW K, JobsIn(K), Restart \/ \E p \in Processes : Fails(p)
  PROVE  JobsIn(K)'
<1>1. CASE Restart
  <2>1. jobs' = [p \in Processes |-> Idle]  BY <1>1 DEF Restart
  <2> QED  BY <2>1, IdleOK DEF JobsIn
<1>2. ASSUME NEW p \in Processes, Fails(p)  PROVE JobsIn(K)'
  <2>1. CASE jobs' = [jobs EXCEPT ![p] = Idle]  BY <2>1, IdleOK, JobMoves
  <2>2. CASE Ends(p)  BY <2>2, Ending
  <2>3. CASE Registered(p)  BY <2>3, Registering
  <2> QED  BY <1>2, <2>1, <2>2, <2>3 DEF Fails
<1> QED  BY <1>1, <1>2

-----------------------------------------------------------------------------
(* Rows.                                                                   *)

LEMMA ViewIn ==
  ASSUME NEW K, RowsIn(K), NEW m, NEW view \in Seq(ButtonIn(K)), UNCHANGED buttons,
         rows' = WithView(m, view) \/ rows' = WithBoth(m, view)
  PROVE  RowsIn(K)'
<1>1. /\ DOMAIN rows' = DOMAIN rows
      /\ \A n \in DOMAIN rows : rows[n] \in RowIn(K) => rows'[n] \in RowIn(K)
  <2>1. CASE rows' = rows  BY <2>1
  <2>2. CASE m \in DOMAIN rows /\ rows' = [rows EXCEPT ![m].view = view]  BY <2>2 DEF RowIn
  <2>3. CASE m \in DOMAIN rows /\ rows' = [rows EXCEPT ![m].view = view, ![m].last = IF view = <<>> THEN @ ELSE view]
    BY <2>3 DEF RowIn
  <2> QED  BY <2>1, <2>2, <2>3 DEF WithView, WithBoth
<1> QED  BY <1>1 DEF RowsIn

LEMMA OnceAppended ==
  ASSUME NEW K, NEW bs \in Seq(ButtonIn(K)), Once(bs), NEW b \in ButtonIn(K), b.role \notin RolesOf(bs)
  PROVE  Append(bs, b) \in Seq(ButtonIn(K)) /\ Once(Append(bs, b))
<1>1. PICK cs : cs = Append(bs, b)  OBVIOUS
<1>2. /\ cs \in Seq(ButtonIn(K)) /\ Len(cs) = Len(bs) + 1 /\ Len(bs) \in Nat
      /\ \A i \in 1 .. Len(bs) : cs[i] = bs[i]
      /\ cs[Len(bs) + 1] = b
  BY <1>1, AppendProperties
<1>3. \A i \in 1 .. Len(bs) : cs[i].role # b.role  BY <1>2 DEF RolesOf
<1>4. \A i, j \in 1 .. Len(bs) : cs[i].role = cs[j].role => i = j  BY <1>2 DEF Once
<1>5. ASSUME NEW i \in DOMAIN cs, NEW j \in DOMAIN cs, cs[i].role = cs[j].role  PROVE i = j
  <2>1. i \in 1 .. Len(bs) + 1 /\ j \in 1 .. Len(bs) + 1  BY <1>2
  <2>2. CASE i = Len(bs) + 1  BY <1>2, <1>3, <1>5, <2>1, <2>2
  <2>3. CASE j = Len(bs) + 1  BY <1>2, <1>3, <1>5, <2>1, <2>3
  <2> QED  BY <1>2, <1>4, <1>5, <2>1, <2>2, <2>3
<1> QED  BY <1>1, <1>2, <1>5 DEF Once

LEMMA OnceRemoved ==
  ASSUME NEW K, NEW bs \in Seq(ButtonIn(K)), Once(bs), NEW k \in DOMAIN bs
  PROVE  RemoveAt(bs, k) \in Seq(ButtonIn(K)) /\ Once(RemoveAt(bs, k))
<1>1. PICK cs : cs = RemoveAt(bs, k)  OBVIOUS
<1>2. /\ cs \in Seq(ButtonIn(K)) /\ Len(cs) = Len(bs) - 1 /\ Len(bs) \in Nat /\ k \in 1 .. Len(bs)
      /\ \A j \in 1 .. Len(bs) - 1 : cs[j] = IF j < k THEN bs[j] ELSE bs[j + 1]
  BY <1>1, RemoveIs
<1>3. ASSUME NEW i \in DOMAIN cs, NEW j \in DOMAIN cs, cs[i].role = cs[j].role  PROVE i = j
  <2>1. i \in 1 .. Len(bs) - 1 /\ j \in 1 .. Len(bs) - 1  BY <1>2
  <2>2. PICK x : x = IF i < k THEN i ELSE i + 1  OBVIOUS
  <2>3. PICK y : y = IF j < k THEN j ELSE j + 1  OBVIOUS
  <2>4. x \in 1 .. Len(bs) /\ cs[i] = bs[x]  BY <1>2, <2>1, <2>2
  <2>5. y \in 1 .. Len(bs) /\ cs[j] = bs[y]  BY <1>2, <2>1, <2>3
  <2>6. x = y  BY <1>3, <2>4, <2>5 DEF Once
  <2> QED  BY <1>2, <2>1, <2>2, <2>3, <2>6
<1> QED  BY <1>1, <1>2, <1>3 DEF Once

LEMMA RowsWritten ==
  ASSUME NEW K, TableOK, Born, RowsIn(K), JobsIn(K), NEW a \in Admins,
         WriteRow(a) \/ Insert(a) \/ Take(a)
  PROVE  RowsIn(K)'
<1>1. JobOK(K, a, jobs[a])  BY LoopsAreNot DEF JobsIn
<1>2. PICK job : job = jobs[a]  OBVIOUS
<1>3. CASE WriteRow(a)
  <2>1. job.step = "row" /\ job.m \in Messages
    BY <1>2, <1>3, RolePanelsAssumption DEF WriteRow, Born, TableOK, Messages
  <2>2. job.mode \in Modes  BY <1>1, <1>2 DEF JobOK, JobIn
  <2>3. PICK row : row = [mode |-> job.mode, view |-> <<>>, last |-> <<>>]  OBVIOUS
  <2>4. row \in RowIn(K)  BY <2>2, <2>3 DEF RowIn
  <2>5. rows' = With(rows, job.m, row) /\ buttons' = With(buttons, job.m, <<>>)  BY <1>2, <1>3, <2>3 DEF WriteRow
  <2>6. Once(<<>>) /\ <<>> \in Seq(ButtonIn(K))  BY DEF Once
  <2> QED  BY <2>1, <2>4, <2>5, <2>6 DEF RowsIn, With
<1>4. CASE Insert(a) /\ buttons' # buttons
  <2>1. job.m \in DOMAIN rows /\ job.step = "insert" /\ UNCHANGED rows  BY <1>2, <1>4 DEF Insert
  <2>2. job.todo \in Seq(ButtonIn(K)) /\ job.todo # <<>>  BY <1>1, <1>2, <2>1 DEF JobOK, JobIn, Todo, Carrying
  <2>3. PICK b \in ButtonIn(K) : b = job.todo[1]  BY <2>2
  <2>4. PICK bs : bs = buttons[job.m]  OBVIOUS
  <2>5. bs \in Seq(ButtonIn(K)) /\ Once(bs)  BY <2>1, <2>4 DEF RowsIn
  <2>6. b.role \notin RolesOf(bs) /\ buttons' = [buttons EXCEPT ![job.m] = Append(bs, b)]
    BY <1>2, <1>4, <2>1, <2>3, <2>4 DEF Insert
  <2>7. PICK cs : cs = Append(bs, b)  OBVIOUS
  <2>8. cs \in Seq(ButtonIn(K)) /\ Once(cs)  BY <2>5, <2>6, <2>7, OnceAppended
  <2>9. buttons' = [buttons EXCEPT ![job.m] = cs]  BY <2>6, <2>7
  <2> QED  BY <2>1, <2>8, <2>9 DEF RowsIn
<1>5. CASE Take(a) /\ buttons' # buttons
  <2>1. UNCHANGED rows /\ job.todo[1].role \in RolesOf(ButtonsOf(job.m))  BY <1>2, <1>5 DEF Take
  <2>2. job.m \in DOMAIN buttons
    <3>1. ASSUME job.m \notin DOMAIN buttons  PROVE FALSE
      <4>1. ButtonsOf(job.m) = <<>>  BY <3>1 DEF ButtonsOf
      <4> QED  BY <2>1, <4>1 DEF RolesOf
    <3> QED  BY <3>1
  <2>3. PICK bs : bs = buttons[job.m]  OBVIOUS
  <2>4. bs \in Seq(ButtonIn(K)) /\ Once(bs)  BY <2>2, <2>3 DEF RowsIn
  <2>5. PICK i \in DOMAIN bs : buttons' = [buttons EXCEPT ![job.m] = RemoveAt(bs, i)]
    <3>1. \E i \in DOMAIN buttons[jobs[a].m] :
             buttons' = [buttons EXCEPT ![jobs[a].m] = RemoveAt(buttons[jobs[a].m], i)]
      BY <1>5 DEF Take
    <3> QED  BY <1>2, <2>3, <3>1
  <2>6. PICK cs : cs = RemoveAt(bs, i)  OBVIOUS
  <2>7. cs \in Seq(ButtonIn(K)) /\ Once(cs)  BY <2>4, <2>6, OnceRemoved
  <2>8. buttons' = [buttons EXCEPT ![job.m] = cs]  BY <2>5, <2>6
  <2> QED  BY <2>1, <2>2, <2>7, <2>8 DEF RowsIn
<1>6. CASE UNCHANGED <<rows, buttons>>  BY <1>6 DEF RowsIn
<1> QED  BY <1>3, <1>4, <1>5, <1>6 DEF Insert, Take

\* Fingerprints are written of buttons; rows are removed.
LEMMA RowsMarked ==
  ASSUME NEW K, RowsIn(K), JobsIn(K), NEW p \in Processes, Mark(p) \/ Drop(p) \/ Rebuilt(p) \/ Ensured(p)
  PROVE  RowsIn(K)'
<1>1. jobs[p].view \in Seq(ButtonIn(K)) /\ jobs[p].seen \in Seq(ButtonIn(K)) /\ jobs[p].heard \in Seq(ButtonIn(K))
  BY DEF JobsIn, JobOK, JobIn
<1>2. CASE Mark(p)
  <2>1. PICK view \in Seq(ButtonIn(K)) : view = jobs[p].view  BY <1>1
  <2>2. rows' = WithBoth(jobs[p].m, view) /\ UNCHANGED buttons  BY <1>2, <2>1 DEF Mark
  <2> QED  BY <2>2, ViewIn
<1>3. CASE Rebuilt(p)
  <2>1. PICK view \in Seq(ButtonIn(K)) : view = jobs[p].seen  BY <1>1
  <2>2. rows' = WithView(jobs[p].m, view) /\ UNCHANGED buttons  BY <1>3, <2>1 DEF Rebuilt
  <2> QED  BY <2>2, ViewIn
<1>4. CASE Ensured(p)
  <2>1. PICK view \in Seq(ButtonIn(K)) : view = jobs[p].heard  BY <1>1
  <2>2. rows' = WithView(jobs[p].m, view) /\ UNCHANGED buttons  BY <1>4, <2>1 DEF Ensured
  <2> QED  BY <2>2, ViewIn
<1>5. CASE Drop(p)
  <2>1. rows' = Without(rows, jobs[p].m) /\ buttons' = Without(buttons, jobs[p].m)  BY <1>5 DEF Drop
  <2> QED  BY <2>1 DEF RowsIn, Without, Restrict
<1> QED  BY <1>2, <1>3, <1>4, <1>5

-----------------------------------------------------------------------------
(* What is shown and heard.                                                 *)

LEMMA VisibleRoles ==
  ASSUME NEW K, NEW bs \in Seq(ButtonIn(K))
  PROVE  RolesOf(bs) \subseteq K /\ \A e \in DOMAIN EmojiMap(bs) : EmojiMap(bs)[e] \in K
<1>1. ASSUME NEW cs \in Seq(ButtonIn(K)), NEW i \in DOMAIN cs  PROVE cs[i].role \in K
  <2>1. cs[i] \in ButtonIn(K)  OBVIOUS
  <2> QED  BY <2>1 DEF ButtonIn
<1>2. PICK v \in Seq(ButtonIn(K)) : v = Visible(bs)  BY VisibleIs
<1>3. ASSUME NEW e \in DOMAIN EmojiMap(bs)  PROVE EmojiMap(bs)[e] \in K
  <2>1. e \in {v[i].emoji : i \in DOMAIN v}  BY <1>2, <1>3 DEF EmojiMap
  <2>2. PICK S : S = {i \in DOMAIN v : v[i].emoji = e}  OBVIOUS
  <2>3. S \subseteq Nat /\ S # {} /\ S \subseteq DOMAIN v  BY <2>1, <2>2
  <2>4. Min(S) \in DOMAIN v  BY <2>3, LeastIs
  <2>5. EmojiMap(bs)[e] = v[Min(S)].role  BY <1>2, <2>1, <2>2 DEF EmojiMap
  <2> QED  BY <1>1, <2>4, <2>5
<1> QED  BY <1>1, <1>3 DEF RolesOf

LEMMA PostedMoves ==
  ASSUME NEW K, Known \subseteq K, PostedIn(K), JobsIn(K),
         \/ \E a \in Admins, bs \in SeqOf(Button, Cardinality(Roles)), mode \in Modes : Create(a, bs, mode)
         \/ \E p \in Processes : Edit(p) \/ Erase(p)
         \/ Blank \/ \E m \in Messages : Vanish(m)
  PROVE  PostedIn(K)'
<1>1. CASE \E m : posted' = Without(posted, m)  BY <1>1 DEF PostedIn, Without, Restrict
<1>2. ASSUME NEW a \in Admins, NEW bs \in SeqOf(Button, Cardinality(Roles)), NEW mode \in Modes, Create(a, bs, mode)
      PROVE  PostedIn(K)'
  <2>1. RolesOf(bs) \subseteq Offered  BY <1>2 DEF Create
  <2>2. bs \in Seq([role : Known, emoji : Emojis])  BY <2>1, CreatedAre
  <2>3. [role : Known, emoji : Emojis] \subseteq ButtonIn(K)  BY DEF ButtonIn
  <2>4. bs \in Seq(ButtonIn(K))  BY <2>2, <2>3, SeqMonotonic
  <2>5. PICK v \in Seq(ButtonIn(K)) : v = Visible(bs)  BY <2>4, VisibleIs
  <2>6. PICK face : face = [embed |-> v, components |-> <<>>]  OBVIOUS
  <2>7. face \in FaceIn(K)  BY <2>6 DEF FaceIn
  <2>8. PICK m : posted' = With(posted, m, face)  BY <1>2, <2>5, <2>6 DEF Create
  <2> QED  BY <2>7, <2>8 DEF PostedIn, With
<1>3. ASSUME NEW p \in Processes, Edit(p), posted' # posted  PROVE PostedIn(K)'
  <2>1. PICK job : job = jobs[p]  OBVIOUS
  <2>2. job.seen \in Seq(ButtonIn(K))  BY <2>1 DEF JobsIn, JobOK, JobIn
  <2>3. PICK v \in Seq(ButtonIn(K)) : v = Visible(job.seen)  BY <2>2, VisibleIs
  <2>4. job.m \in DOMAIN posted  BY <1>3, <2>1 DEF Edit
  <2>5. posted[job.m] \in FaceIn(K)  BY <2>4 DEF PostedIn
  <2>6. PICK embed, shown : /\ embed = IF job.kind = "create" THEN posted[job.m].embed ELSE v
                            /\ shown = IF job.mode = "buttons" THEN v ELSE <<>>
    OBVIOUS
  <2>7. PICK face : face = [embed |-> embed, components |-> shown]  OBVIOUS
  <2>8. face \in FaceIn(K)
    <3>1. embed \in Seq(ButtonIn(K))  BY <2>5, <2>6 DEF FaceIn
    <3>2. shown \in Seq(ButtonIn(K))  BY <2>6
    <3> QED  BY <2>7, <3>1, <3>2 DEF FaceIn
  <2>9. posted' = [posted EXCEPT ![job.m] = face]  BY <1>3, <2>1, <2>3, <2>4, <2>6, <2>7 DEF Edit
  <2> QED  BY <2>8, <2>9 DEF PostedIn
<1>4. CASE Blank
  <2>1. PICK m : posted' = IF m \in DOMAIN posted THEN [posted EXCEPT ![m].components = <<>>] ELSE posted
    BY <1>4 DEF Blank
  <2>2. CASE posted' = [posted EXCEPT ![m].components = <<>>] /\ m \in DOMAIN posted
    <3>1. PICK face : face = [posted[m] EXCEPT !.components = <<>>]  OBVIOUS
    <3>2. posted[m] \in FaceIn(K)  BY <2>2 DEF PostedIn
    <3>3. PICK none : none = <<>>  OBVIOUS
    <3>4. none \in Seq(ButtonIn(K)) /\ face = [posted[m] EXCEPT !.components = none]  BY <3>1, <3>3
    <3>5. face \in FaceIn(K)  BY <3>2, <3>4 DEF FaceIn
    <3>6. posted' = [posted EXCEPT ![m] = face]  BY <2>2, <3>1
    <3> QED  BY <3>5, <3>6 DEF PostedIn
  <2>3. CASE posted' = posted  BY <2>3 DEF PostedIn
  <2> QED  BY <2>1, <2>2, <2>3
<1>5. CASE posted' = posted  BY <1>5 DEF PostedIn
<1> QED  BY <1>1, <1>2, <1>3, <1>4, <1>5 DEF Erase, Vanish

LEMMA HandledMoves ==
  ASSUME NEW K, HandledIn(K), JobsIn(K), NEW p \in Processes, Edit(p) \/ Hear(p)
  PROVE  HandledIn(K)'
<1>1. ASSUME NEW m, NEW bs \in Seq(ButtonIn(K)), handled' = Handle(m, bs)  PROVE HandledIn(K)'
  <2>1. PICK R : R = RolesOf(bs)  OBVIOUS
  <2>2. R \subseteq K  BY <2>1, VisibleRoles
  <2>3. handled' = [i \in DOMAIN handled \cup {m} |->
                      (IF i \in DOMAIN handled THEN handled[i] ELSE {}) \cup (IF i = m THEN R ELSE {})]
    BY <1>1, <2>1 DEF Handle
  <2> QED  BY <2>2, <2>3 DEF HandledIn
<1>2. CASE Edit(p) /\ handled' # handled
  <2>1. jobs[p].seen \in Seq(ButtonIn(K))  BY DEF JobsIn, JobOK, JobIn
  <2>2. Visible(jobs[p].seen) \in Seq(ButtonIn(K))  BY <2>1, VisibleIs
  <2>3. PICK bs : bs = IF jobs[p].mode = "buttons" THEN Visible(jobs[p].seen) ELSE <<>>  OBVIOUS
  <2>4. bs \in Seq(ButtonIn(K))  BY <2>2, <2>3
  <2>5. handled' = Handle(jobs[p].m, bs)  BY <1>2, <2>3 DEF Edit
  <2> QED  BY <1>1, <2>4, <2>5
<1>3. CASE Hear(p) /\ handled' # handled
  <2>1. jobs[p].heard \in Seq(ButtonIn(K))  BY DEF JobsIn, JobOK, JobIn
  <2>2. PICK bs \in Seq(ButtonIn(K)) : bs = Visible(jobs[p].heard)  BY <2>1, VisibleIs
  <2>3. handled' = Handle(jobs[p].m, bs)  BY <1>3, <2>2 DEF Hear
  <2> QED  BY <1>1, <2>3
<1>4. CASE handled' = handled  BY <1>4 DEF HandledIn
<1> QED  BY <1>2, <1>3, <1>4

LEMMA HeardMoves ==
  ASSUME NEW K, JobsIn(K), HeardIn(K),
         Restart \/ \E p \in Processes : Hear(p) \/ Store(p) \/ Forget(p) \/ Drop(p)
  PROVE  HeardIn(K)'
<1>1. CASE listener' = listener \/ \E m : listener' = Without(listener, m)
  BY <1>1 DEF HeardIn, Without, Restrict
<1>2. CASE listener' = <<>>  BY <1>2 DEF HeardIn
<1>3. ASSUME NEW p \in Processes, NEW m, listener' = With(listener, m, EmojiMap(jobs[p].heard))
      PROVE  HeardIn(K)'
  <2>1. jobs[p].heard \in Seq(ButtonIn(K))  BY DEF JobsIn, JobOK, JobIn
  <2>2. PICK map : map = EmojiMap(jobs[p].heard)  OBVIOUS
  <2>3. \A e \in DOMAIN map : map[e] \in K  BY <2>1, <2>2, VisibleRoles
  <2>4. listener' = With(listener, m, map)  BY <1>3, <2>2
  <2> QED  BY <2>3, <2>4 DEF HeardIn, With
<1>4. ASSUME NEW p \in Processes, Hear(p) \/ Store(p) \/ Forget(p) \/ Drop(p)  PROVE HeardIn(K)'
  BY <1>1, <1>3, <1>4 DEF Hear, Reloaded, Store, Stored, Forget, Drop
<1> QED  BY <1>2, <1>4 DEF Restart

-----------------------------------------------------------------------------
(* Members.                                                                *)

LEMMA HadMoves ==
  ASSUME NEW K, Known \subseteq K, TableOK, HadIn(K), HandledIn(K), HeardIn(K),
         \/ \E a \in Admins : Strip(a)
         \/ \E r \in Roles, on \in BOOLEAN : SetAuto(r, on)
         \/ \E u \in Members : \/ Join(u)
                               \/ \E m \in Messages : \/ \E r \in Roles : Press(u, m, r)
                                                      \/ \E e \in Emojis : React(u, m, e)
  PROVE  HadIn(K)'
<1>1. ASSUME NEW a \in Admins, Strip(a)  PROVE HadIn(K)'
  BY <1>1 DEF Strip, HadIn
<1>2. ASSUME NEW r \in Roles, NEW on \in BOOLEAN, SetAuto(r, on)  PROVE HadIn(K)'
  <2>1. table[r] # "unknown" => r \in K  BY DEF Known
  <2> QED  BY <1>2, <2>1 DEF SetAuto, HadIn
<1>3. ASSUME NEW u \in Members, Join(u)  PROVE HadIn(K)'
  BY <1>3 DEF Join, HadIn
<1>4. ASSUME NEW u \in Members, NEW r \in K, Toggle(u, r), UNCHANGED auto  PROVE HadIn(K)'
  BY <1>4 DEF Toggle, HadIn
<1>5. ASSUME NEW u \in Members, NEW m \in Messages, NEW r \in Roles, Press(u, m, r)  PROVE HadIn(K)'
  <2>1. r \in K  BY <1>5 DEF Press, HandledIn
  <2> QED  BY <1>4, <1>5, <2>1 DEF Press
<1>6. ASSUME NEW u \in Members, NEW m \in Messages, NEW e \in Emojis, React(u, m, e)  PROVE HadIn(K)'
  <2>1. PICK r \in K : r = listener[m][e]  BY <1>6 DEF React, HeardIn
  <2>2. Toggle(u, r) /\ UNCHANGED auto  BY <1>6, <2>1 DEF React
  <2> QED  BY <1>4, <2>2
<1> QED  BY <1>1, <1>2, <1>3, <1>5, <1>6

-----------------------------------------------------------------------------
(* The invariant.                                                          *)

\* What each step leaves alone.
Requests(a) ==
    \/ \E bs \in SeqOf(Button, Cardinality(Roles)), mode \in Modes : Create(a, bs, mode)
    \/ \E m \in Messages : \/ \E b \in Button : AskAdd(a, m, b)
                           \/ AskDelete(a, m)
                           \/ \E i \in 1 .. Cardinality(Roles) : AskRemove(a, m, i)
Settles == SyncRoles \/ \E r \in Roles : Regrade(r) \/ \E on \in BOOLEAN : SetPublic(r, on) \/ SetAuto(r, on)
Uses ==
    \E u \in Members : \/ Join(u)
                       \/ \E m \in Messages : \/ \E r \in Roles : Press(u, m, r)
                                              \/ \E e \in Emojis : React(u, m, e)
AnyStep ==
    \/ \E a \in Admins : Commands(a) \/ Requests(a)
    \/ Refreshes \/ Cleans \/ Settles \/ Uses
    \/ (\E p \in Processes : Fails(p)) \/ Restart \/ \E m \in Messages : Vanish(m)

LEMMA NextIs == Next => AnyStep
  BY DEF Next, AnyStep, Requests, Settles, Uses

LEMMA Untouched ==
    /\ \A a \in Admins : Requests(a) =>
          /\ UNCHANGED <<table, auto, safe, has, rows, buttons, listener, handled, cleaner>>
          /\ posted' = posted \/ \E bs \in SeqOf(Button, Cardinality(Roles)), mode \in Modes : Create(a, bs, mode)
    /\ Settles => UNCHANGED <<has, rows, buttons, posted, listener, handled, cleaner, jobs>>
    /\ Uses => UNCHANGED <<table, auto, safe, rows, buttons, posted, listener, handled, cleaner, jobs>>
    /\ \A p \in Processes : Fails(p) => UNCHANGED <<table, auto, safe, has, rows, buttons, posted, listener, handled>>
    /\ Restart => UNCHANGED <<table, auto, safe, has, rows, buttons, posted>>
    /\ \A m \in Messages : Vanish(m) => UNCHANGED <<table, auto, safe, has, rows, buttons, listener, handled, cleaner, jobs>>
<1>1. \A a \in Admins : Requests(a) =>
          /\ UNCHANGED <<table, auto, safe, has, rows, buttons, listener, handled, cleaner>>
          /\ posted' = posted \/ \E bs \in SeqOf(Button, Cardinality(Roles)), mode \in Modes : Create(a, bs, mode)
  BY DEF Requests, Create, AskAdd, AskDelete, AskRemove, Asks, roleVars, panelVars, memory
<1>2. Settles => UNCHANGED <<has, rows, buttons, posted, listener, handled, cleaner, jobs>>
  BY DEF Settles, SyncRoles, Regrade, SetPublic, SetAuto, panelVars, memory
<1>3. Uses => UNCHANGED <<table, auto, safe, rows, buttons, posted, listener, handled, cleaner, jobs>>
  BY DEF Uses, Join, Press, React, panelVars, memory
<1>4. \A p \in Processes : Fails(p) => UNCHANGED <<table, auto, safe, has, rows, buttons, posted, listener, handled>>
  BY DEF Fails, roleVars, panelVars
<1>5. Restart => UNCHANGED <<table, auto, safe, has, rows, buttons, posted>>
  BY DEF Restart, roleVars, panelVars
<1>6. \A m \in Messages : Vanish(m) => UNCHANGED <<table, auto, safe, has, rows, buttons, listener, handled, cleaner, jobs>>
  BY DEF Vanish, roleVars, panelVars, memory
<1> QED  BY <1>1, <1>2, <1>3, <1>4, <1>5, <1>6

\* The steps of processes.
LEMMA UntouchedBy ==
    /\ \A a \in Admins : Writes(a) => UNCHANGED <<table, auto, safe, posted, listener, handled, cleaner>>
    /\ \A a \in Admins : GetPanel(a) \/ List(a) =>
          UNCHANGED <<table, auto, safe, has, rows, buttons, posted, listener, handled, cleaner, spent>>
    /\ \A p \in Processes : Edit(p) => UNCHANGED <<table, auto, safe, has, rows, buttons, listener, cleaner, spent>>
    /\ \A p \in Processes : Registers(p) => UNCHANGED <<table, auto, safe, has, rows, buttons, posted, cleaner, spent>>
    /\ \A p \in Processes : Marks(p) => UNCHANGED <<table, auto, safe, has, buttons, posted, listener, handled, cleaner, spent>>
    /\ \A p \in Processes : Erase(p) => UNCHANGED <<table, auto, safe, has, rows, buttons, listener, handled, cleaner>>
    /\ \A p \in Processes : Drop(p) => UNCHANGED <<table, auto, safe, has, posted, handled, cleaner, spent>>
    /\ Begin("refresh") \/ Begin("clean") \/ Panel \/ Look \/ Probe =>
          UNCHANGED <<table, auto, safe, has, rows, buttons, posted, listener, handled, cleaner, spent>>
    /\ Blank => UNCHANGED <<table, auto, safe, has, rows, buttons, listener, handled, cleaner, spent>>
<1>1. \A a \in Admins : Writes(a) => UNCHANGED <<table, auto, safe, posted, listener, handled, cleaner>>
  BY DEF Writes, WriteRow, Count, Insert, Take, Rebuild, Rebuilt, Strip, roleVars, memory
<1>2. \A a \in Admins : GetPanel(a) \/ List(a) =>
          UNCHANGED <<table, auto, safe, has, rows, buttons, posted, listener, handled, cleaner, spent>>
  BY DEF GetPanel, List, roleVars, panelVars, memory
<1>3. \A p \in Processes : Edit(p) => UNCHANGED <<table, auto, safe, has, rows, buttons, listener, cleaner, spent>>
  BY DEF Edit, roleVars, panelVars
<1>4. \A p \in Processes : Registers(p) => UNCHANGED <<table, auto, safe, has, rows, buttons, posted, cleaner, spent>>
  BY DEF Registers, Register, Listen, Hear, Store, Forget, roleVars, panelVars, memory
<1>5. \A p \in Processes : Marks(p) => UNCHANGED <<table, auto, safe, has, buttons, posted, listener, handled, cleaner, spent>>
  BY DEF Marks, Ensure, Ensured, Mark, roleVars, panelVars, memory
<1>6. \A p \in Processes : Erase(p) => UNCHANGED <<table, auto, safe, has, rows, buttons, listener, handled, cleaner>>
  BY DEF Erase, roleVars, panelVars, memory
<1>7. \A p \in Processes : Drop(p) => UNCHANGED <<table, auto, safe, has, posted, handled, cleaner, spent>>
  BY DEF Drop, roleVars
<1>8. Begin("refresh") \/ Begin("clean") \/ Panel \/ Look \/ Probe =>
          UNCHANGED <<table, auto, safe, has, rows, buttons, posted, listener, handled, cleaner, spent>>
  BY DEF Begin, Panel, Look, Probe, roleVars, panelVars, memory
<1>9. Blank => UNCHANGED <<table, auto, safe, has, rows, buttons, listener, handled, cleaner, spent>>
  BY DEF Blank, roleVars, panelVars, memory
<1> QED  BY <1>1, <1>2, <1>3, <1>4, <1>5, <1>6, <1>7, <1>8, <1>9

LEMMA Kept ==
  ASSUME NEW K
  PROVE  /\ RowsIn(K) /\ UNCHANGED <<rows, buttons>> => RowsIn(K)'
         /\ PostedIn(K) /\ UNCHANGED posted => PostedIn(K)'
         /\ HandledIn(K) /\ UNCHANGED handled => HandledIn(K)'
         /\ HeardIn(K) /\ UNCHANGED listener => HeardIn(K)'
         /\ HadIn(K) /\ UNCHANGED <<auto, has>> => HadIn(K)'
         /\ JobsIn(K) /\ UNCHANGED jobs => JobsIn(K)'
         /\ handled' = <<>> => HandledIn(K)'
<1>1. RowsIn(K) /\ UNCHANGED <<rows, buttons>> => RowsIn(K)'  BY DEF RowsIn
<1>2. PostedIn(K) /\ UNCHANGED posted => PostedIn(K)'  BY DEF PostedIn
<1>3. HandledIn(K) /\ UNCHANGED handled => HandledIn(K)'  BY DEF HandledIn
<1>4. HeardIn(K) /\ UNCHANGED listener => HeardIn(K)'  BY DEF HeardIn
<1>5. HadIn(K) /\ UNCHANGED <<auto, has>> => HadIn(K)'  BY DEF HadIn
<1>6. JobsIn(K) /\ UNCHANGED jobs => JobsIn(K)'  BY DEF JobsIn
<1>7. handled' = <<>> => HandledIn(K)'  BY DEF HandledIn
<1> QED  BY <1>1, <1>2, <1>3, <1>4, <1>5, <1>6, <1>7

\* Whatever happens, roles of panels and of members are of K, if those the bot knows are.
LEMMA RolesStay ==
  ASSUME NEW K, Known \subseteq K, TableOK, Born, RolesIn(K), Next
  PROVE  RolesIn(K)'
<1>1. RowsIn(K) /\ PostedIn(K) /\ HandledIn(K) /\ HeardIn(K) /\ HadIn(K) /\ JobsIn(K)  BY DEF RolesIn, ShownIn
<1>2. SUFFICES RowsIn(K)' /\ PostedIn(K)' /\ HandledIn(K)' /\ HeardIn(K)' /\ HadIn(K)' /\ JobsIn(K)'
  BY DEF RolesIn, ShownIn
<1>3. Admins \subseteq Processes /\ {"refresh", "clean"} \subseteq Processes  BY LoopsAreNot
<1>4. ASSUME NEW a \in Admins, Writes(a)
      PROVE  RowsIn(K)' /\ PostedIn(K)' /\ HandledIn(K)' /\ HeardIn(K)' /\ HadIn(K)' /\ JobsIn(K)'
  <2>1. UNCHANGED <<auto, posted, listener, handled>>  BY <1>4, UntouchedBy
  <2>2. PostedIn(K)' /\ HandledIn(K)' /\ HeardIn(K)'  BY <1>1, <2>1, Kept
  <2>3. JobsIn(K)'  BY <1>1, <1>4, Writing
  <2>4. HadIn(K)'
    <3>1. CASE Strip(a)  BY <1>1, <3>1, HadMoves
    <3>2. UNCHANGED has \/ Strip(a)
      BY <1>4 DEF Writes, WriteRow, Count, Insert, Take, Rebuild, Rebuilt, roleVars
    <3> QED  BY <1>1, <2>1, <3>1, <3>2, Kept
  <2>5. RowsIn(K)'
    <3>1. CASE WriteRow(a) \/ Insert(a) \/ Take(a)  BY <1>1, <3>1, RowsWritten
    <3>2. CASE Rebuilt(a)  BY <1>1, <1>3, <3>2, RowsMarked
    <3>3. CASE Count(a) \/ Rebuild(a) \/ Strip(a)
      <4>1. UNCHANGED <<rows, buttons>>  BY <3>3 DEF Count, Rebuild, Strip, panelVars
      <4> QED  BY <1>1, <4>1, Kept
    <3> QED  BY <1>4, <3>1, <3>2, <3>3 DEF Writes
  <2> QED  BY <2>2, <2>3, <2>4, <2>5
<1>5. ASSUME NEW p \in Processes, Renders(p) \/ Erase(p) \/ Drop(p)
      PROVE  RowsIn(K)' /\ PostedIn(K)' /\ HandledIn(K)' /\ HeardIn(K)' /\ HadIn(K)' /\ JobsIn(K)'
  <2>1. JobsIn(K)'  BY <1>1, <1>5, Rendering
  <2>2. UNCHANGED <<auto, has>>  BY <1>5, UntouchedBy DEF Renders
  <2>3. HadIn(K)'  BY <1>1, <2>2, Kept
  <2>4. CASE Edit(p)
    <3>1. UNCHANGED <<rows, buttons, listener>>  BY <2>4, UntouchedBy
    <3>2. RowsIn(K)' /\ HeardIn(K)'  BY <1>1, <3>1, Kept
    <3>3. PostedIn(K)' /\ HandledIn(K)'  BY <1>1, <2>4, PostedMoves, HandledMoves
    <3> QED  BY <2>1, <2>3, <3>2, <3>3
  <2>5. CASE Registers(p)
    <3>1. UNCHANGED <<rows, buttons, posted>>  BY <2>5, UntouchedBy
    <3>2. RowsIn(K)' /\ PostedIn(K)'  BY <1>1, <3>1, Kept
    <3>3. CASE Hear(p)  BY <1>1, <2>1, <2>3, <3>2, <3>3, HeardMoves, HandledMoves
    <3>4. CASE Store(p) \/ Forget(p)
      <4>1. UNCHANGED handled  BY <3>4 DEF Store, Forget
      <4> QED  BY <1>1, <2>1, <2>3, <3>2, <3>4, <4>1, HeardMoves, Kept
    <3>5. CASE Register(p) \/ Listen(p)
      <4>1. UNCHANGED <<listener, handled>>  BY <3>5 DEF Register, Listen, memory
      <4> QED  BY <1>1, <2>1, <2>3, <3>2, <4>1, Kept
    <3> QED  BY <2>5, <3>3, <3>4, <3>5 DEF Registers
  <2>6. CASE Marks(p)
    <3>1. UNCHANGED <<posted, listener, handled>>  BY <2>6, UntouchedBy
    <3>2. PostedIn(K)' /\ HandledIn(K)' /\ HeardIn(K)'  BY <1>1, <3>1, Kept
    <3>3. RowsIn(K)'
      <4>1. CASE Ensured(p) \/ Mark(p)  BY <1>1, <4>1, RowsMarked
      <4>2. CASE Ensure(p)
        <5>1. UNCHANGED <<rows, buttons>>  BY <4>2 DEF Ensure, panelVars
        <5> QED  BY <1>1, <5>1, Kept
      <4> QED  BY <2>6, <4>1, <4>2 DEF Marks
    <3> QED  BY <2>1, <2>3, <3>2, <3>3
  <2>7. CASE Erase(p)
    <3>1. UNCHANGED <<rows, buttons, listener, handled>>  BY <2>7, UntouchedBy
    <3>2. RowsIn(K)' /\ HandledIn(K)' /\ HeardIn(K)'  BY <1>1, <3>1, Kept
    <3>3. PostedIn(K)'  BY <1>1, <2>7, PostedMoves
    <3> QED  BY <2>1, <2>3, <3>2, <3>3
  <2>8. CASE Drop(p)
    <3>1. UNCHANGED <<posted, handled>>  BY <2>8, UntouchedBy
    <3>2. PostedIn(K)' /\ HandledIn(K)'  BY <1>1, <3>1, Kept
    <3>3. RowsIn(K)' /\ HeardIn(K)'  BY <1>1, <2>8, RowsMarked, HeardMoves
    <3> QED  BY <2>1, <2>3, <3>2, <3>3
  <2> QED  BY <1>5, <2>4, <2>5, <2>6, <2>7, <2>8 DEF Renders
<1>6. ASSUME NEW a \in Admins, GetPanel(a) \/ List(a)
      PROVE  RowsIn(K)' /\ PostedIn(K)' /\ HandledIn(K)' /\ HeardIn(K)' /\ HadIn(K)' /\ JobsIn(K)'
  <2>1. UNCHANGED <<auto, has, rows, buttons, posted, listener, handled>>  BY <1>6, UntouchedBy
  <2>2. JobsIn(K)'  BY <1>1, <1>6, Reading
  <2> QED  BY <1>1, <2>1, <2>2, Kept
<1>7. CASE Begin("refresh") \/ Begin("clean") \/ Panel \/ Look \/ Blank \/ Probe
  <2>1. JobsIn(K)'  BY <1>1, <1>7, Looping
  <2>2. UNCHANGED <<auto, has, listener, handled>>  BY <1>7, UntouchedBy
  <2>3. HadIn(K)' /\ HandledIn(K)' /\ HeardIn(K)'  BY <1>1, <2>2, Kept
  <2>4. RowsIn(K)'
    <3>1. UNCHANGED <<rows, buttons>>  BY <1>7, UntouchedBy
    <3> QED  BY <1>1, <3>1, Kept
  <2>5. PostedIn(K)'
    <3>1. CASE Blank  BY <1>1, <3>1, PostedMoves
    <3>2. CASE UNCHANGED posted  BY <1>1, <3>2, Kept
    <3> QED  BY <1>7, <3>1, <3>2, UntouchedBy
  <2> QED  BY <2>1, <2>3, <2>4, <2>5
<1>8. ASSUME NEW a \in Admins, Requests(a)
      PROVE  RowsIn(K)' /\ PostedIn(K)' /\ HandledIn(K)' /\ HeardIn(K)' /\ HadIn(K)' /\ JobsIn(K)'
  <2>1. UNCHANGED <<auto, has, rows, buttons, listener, handled>>  BY <1>8, Untouched
  <2>2. RowsIn(K)' /\ HandledIn(K)' /\ HeardIn(K)' /\ HadIn(K)'  BY <1>1, <2>1, Kept
  <2>3. JobsIn(K)'  BY <1>1, <1>8, Asking DEF Requests
  <2>4. PostedIn(K)'  BY <1>1, <1>8, Untouched, PostedMoves, Kept
  <2> QED  BY <2>2, <2>3, <2>4
<1>9. CASE Settles \/ Uses
  <2>1. UNCHANGED <<rows, buttons, posted, listener, handled, jobs>>  BY <1>9, Untouched
  <2>2. HadIn(K)'
    <3>1. CASE \/ \E r \in Roles, on \in BOOLEAN : SetAuto(r, on)
               \/ Uses
      BY <1>1, <3>1, HadMoves DEF Uses
    <3>2. CASE UNCHANGED <<auto, has>>  BY <1>1, <3>2, Kept
    <3> QED  BY <1>9, <3>1, <3>2 DEF Settles, SyncRoles, Regrade, SetPublic
  <2> QED  BY <1>1, <2>1, <2>2, Kept
<1>10. CASE Restart \/ \E p \in Processes : Fails(p)
  <2>1. UNCHANGED <<auto, has, rows, buttons, posted>>  BY <1>10, Untouched
  <2>2. RowsIn(K)' /\ PostedIn(K)' /\ HadIn(K)'  BY <1>1, <2>1, Kept
  <2>3. JobsIn(K)'  BY <1>1, <1>10, Failing
  <2>4. HandledIn(K)' /\ HeardIn(K)'
    <3>1. CASE Restart
      <4>1. handled' = <<>>  BY <3>1 DEF Restart
      <4> QED  BY <1>1, <3>1, <4>1, Kept, HeardMoves
    <3>2. CASE \E p \in Processes : Fails(p)
      <4>1. UNCHANGED <<listener, handled>>  BY <3>2, Untouched
      <4> QED  BY <1>1, <4>1, Kept
    <3> QED  BY <1>10, <3>1, <3>2
  <2> QED  BY <2>2, <2>3, <2>4
<1>11. ASSUME NEW m \in Messages, Vanish(m)
       PROVE  RowsIn(K)' /\ PostedIn(K)' /\ HandledIn(K)' /\ HeardIn(K)' /\ HadIn(K)' /\ JobsIn(K)'
  <2>1. UNCHANGED <<auto, has, rows, buttons, listener, handled, jobs>>  BY <1>11, Untouched
  <2>2. PostedIn(K)'  BY <1>1, <1>11, PostedMoves
  <2> QED  BY <1>1, <2>1, <2>2, Kept
<1>12. ASSUME NEW a \in Admins, Commands(a)
       PROVE  Writes(a) \/ GetPanel(a) \/ List(a) \/ Renders(a) \/ Erase(a) \/ Drop(a)
  BY <1>12 DEF Commands
<1>13. Refreshes \/ Cleans => \/ Begin("refresh") \/ Begin("clean") \/ Panel \/ Look \/ Blank \/ Probe
                              \/ Renders("refresh") \/ Drop("clean")
  BY DEF Refreshes, Cleans
<1> QED
  BY <1>3, <1>4, <1>5, <1>6, <1>7, <1>8, <1>9, <1>10, <1>11, <1>12, <1>13, NextIs DEF AnyStep

\* More roles are known, the longer it lasts.
LEMMA Widened ==
  ASSUME NEW J, NEW K, J \subseteq K, RolesIn(J)
  PROVE  RolesIn(K)
<1>1. ButtonIn(J) \subseteq ButtonIn(K)  BY DEF ButtonIn
<1>2. \A bs \in Seq(ButtonIn(J)) : bs \in Seq(ButtonIn(K))  BY <1>1, SeqMonotonic
<1>3. RowIn(J) \subseteq RowIn(K) /\ FaceIn(J) \subseteq FaceIn(K)  BY <1>2 DEF RowIn, FaceIn
<1>4. RowsIn(K)  BY <1>2, <1>3 DEF RolesIn, RowsIn
<1>5. ShownIn(K)  BY <1>3 DEF RolesIn, ShownIn, PostedIn, HandledIn, HeardIn
<1>6. HadIn(K)  BY DEF RolesIn, HadIn
<1>7. ASSUME NEW p \in Processes, NEW job, JobOK(J, p, job)  PROVE JobOK(K, p, job)
  <2>1. \A todo \in Seq(Todo(J, p)) : todo \in Seq(Todo(K, p))  BY <1>2 DEF Todo
  <2>2. JobIn(J, p) \subseteq JobIn(K, p)  BY <1>2, <2>1 DEF JobIn
  <2> QED  BY <1>7, <2>2 DEF JobOK
<1>8. JobsIn(K)  BY <1>7 DEF RolesIn, JobsIn
<1> QED  BY <1>4, <1>5, <1>6, <1>8 DEF RolesIn

\* The bounds: only the creation of a panel counts panels.
Spends == \E what \in {"edits", "changes", "faults"} : spent' = [spent EXCEPT ![what] = @ + 1]

LEMMA SpentMoves ==
  ASSUME Next
  PROVE  \/ UNCHANGED spent \/ Spends
         \/ \E a \in Admins, bs \in SeqOf(Button, Cardinality(Roles)), mode \in Modes : Create(a, bs, mode)
<1>1. ASSUME NEW what \in {"edits", "changes", "faults"}, NEW bound, Spend(what, bound)  PROVE Spends
  BY <1>1 DEF Spend, Spends
<1>2. ASSUME NEW a \in Admins, Writes(a)  PROVE UNCHANGED spent \/ Spends
  BY <1>1, <1>2 DEF Writes, WriteRow, Count, Insert, Take, Rebuild, Rebuilt, Strip
<1>3. ASSUME NEW a \in Admins, Commands(a)  PROVE UNCHANGED spent \/ Spends
  BY <1>1, <1>2, <1>3, UntouchedBy, LoopsAreNot DEF Commands, Renders, Erase
<1>4. ASSUME NEW a \in Admins, Requests(a)
      PROVE  \/ Spends
             \/ \E bs \in SeqOf(Button, Cardinality(Roles)), mode \in Modes : Create(a, bs, mode)
  BY <1>1, <1>4 DEF Requests, AskAdd, AskDelete, AskRemove, Asks
<1>5. Refreshes \/ Cleans => UNCHANGED spent
  BY UntouchedBy, LoopsAreNot DEF Refreshes, Cleans, Renders
<1>6. Settles => Spends  BY <1>1 DEF Settles, SyncRoles, Regrade, SetPublic, SetAuto
<1>7. Uses => Spends  BY <1>1 DEF Uses, Join, Press, React
<1>8. Restart \/ (\E p \in Processes : Fails(p)) \/ (\E m \in Messages : Vanish(m)) => Spends
  BY <1>1 DEF Restart, Fails, Vanish
<1> QED  BY <1>3, <1>4, <1>5, <1>6, <1>7, <1>8, NextIs DEF AnyStep

LEMMA TableStep == ASSUME TableOK, Next  PROVE TableOK' /\ Known \subseteq Known'
<1>1. \/ UNCHANGED table \/ SyncRoles \/ \E r \in Roles, public \in BOOLEAN : SetPublic(r, public)
  BY NextIs, Untouched, UntouchedBy, LoopsAreNot
  DEF AnyStep, Commands, Renders, Refreshes, Cleans, Settles, Regrade, SetAuto
<1>2. table' \in [Roles -> {"unknown", "hidden", "public"}] /\ \A r \in Roles : table[r] # "unknown" => table'[r] # "unknown"
  BY <1>1 DEF TableOK, SyncRoles, SetPublic
<1>3. spent' \in [panels : Nat, edits : Nat, changes : Nat, faults : Nat] /\ spent'.panels <= MaxPanels
  <2>1. CASE UNCHANGED spent  BY <2>1 DEF TableOK
  <2>2. CASE Spends
    <3>1. CASE spent' = [spent EXCEPT !.edits = @ + 1]  BY <3>1 DEF TableOK
    <3>2. CASE spent' = [spent EXCEPT !.changes = @ + 1]  BY <3>2 DEF TableOK
    <3>3. CASE spent' = [spent EXCEPT !.faults = @ + 1]  BY <3>3 DEF TableOK
    <3> QED  BY <2>2, <3>1, <3>2, <3>3 DEF Spends
  <2>3. ASSUME NEW a \in Admins, NEW bs, NEW mode, Create(a, bs, mode)
        PROVE  spent' \in [panels : Nat, edits : Nat, changes : Nat, faults : Nat] /\ spent'.panels <= MaxPanels
    <3>1. PICK m \in 1 .. MaxPanels : spent' = [spent EXCEPT !.panels = m, !.edits = @ + 1]
      BY <2>3 DEF Create, Messages
    <3>2. m \in Nat /\ m <= MaxPanels  BY <3>1, RolePanelsAssumption
    <3>3. spent' = [spent EXCEPT !.panels = m, !.edits = @ + 1]  BY <3>1
    <3>4. PICK s : s = spent  OBVIOUS
    <3>5. s \in [panels : Nat, edits : Nat, changes : Nat, faults : Nat]  BY <3>4 DEF TableOK
    <3>6. spent' = [panels |-> m, edits |-> s.edits + 1, changes |-> s.changes, faults |-> s.faults]
      BY <3>3, <3>4, <3>5
    <3> QED  BY <3>2, <3>5, <3>6
  <2>4. UNCHANGED spent \/ Spends \/ \E a \in Admins : \E bs, mode : Create(a, bs, mode)  BY SpentMoves
  <2> QED  BY <2>1, <2>2, <2>3, <2>4
<1>4. safe' \subseteq Roles
  <2>1. UNCHANGED safe \/ \E r \in Roles : Regrade(r)
    BY NextIs, Untouched, UntouchedBy, LoopsAreNot
    DEF AnyStep, Commands, Renders, Refreshes, Cleans, Settles, SyncRoles, SetPublic, SetAuto
  <2> QED  BY <2>1 DEF TableOK, Regrade, SymDiff
<1>5. cleaner' \in BOOLEAN
  <2>1. UNCHANGED cleaner \/ Restart \/ \E p \in Processes : Fails(p)
    BY NextIs, Untouched, UntouchedBy, LoopsAreNot
    DEF AnyStep, Commands, Renders, Refreshes, Cleans
  <2>2. ASSUME NEW p \in Processes, Fails(p)  PROVE cleaner' \in BOOLEAN  BY <2>2, Zenon DEF Fails
  <2> QED  BY <2>1, <2>2 DEF TableOK, Restart
<1>6. Known \subseteq Known'  BY <1>2 DEF Known
<1> QED  BY <1>2, <1>3, <1>4, <1>5, <1>6 DEF TableOK

-----------------------------------------------------------------------------
(* Rows are born once.                                                     *)

\* A command comes to the writing of a row, or of a button, from its own request or count only.
Arrives(a) ==
    \/ jobs'[a] = jobs[a]
    \/ jobs'[a].step \notin {"row", "insert"}
    \/ Count(a) /\ Goes(a, "insert") /\ Len(buttons[jobs[a].m]) < MAX_PANEL_ITEMS
    \/ \E bs \in SeqOf(Button, Cardinality(Roles)), mode \in Modes : Create(a, bs, mode)

LEMMA Arrivals ==
  ASSUME NEW K, RowsIn(K), JobsIn(K), Next, NEW a \in Admins
  PROVE  Arrives(a)
<1>1. Admins \subseteq Processes /\ {"refresh", "clean"} \subseteq Processes /\ a \notin {"refresh", "clean"}
      /\ DOMAIN jobs = Processes
  BY LoopsAreNot DEF JobsIn
<1>2. ASSUME NEW p \in Processes, NEW job, p = a => job.step \notin {"row", "insert"}, jobs' = [jobs EXCEPT ![p] = job]
      PROVE  Arrives(a)
  BY <1>1, <1>2 DEF Arrives
<1>3. ASSUME NEW p \in Processes, NEW step, step \notin {"row", "insert"}, Goes(p, step)  PROVE Arrives(a)
  <2>1. PICK job : job = [jobs[p] EXCEPT !.step = step]  OBVIOUS
  <2>2. "step" \in DOMAIN jobs[p]  BY DEF JobsIn, JobOK, JobIn
  <2>3. job.step = step /\ jobs' = [jobs EXCEPT ![p] = job]  BY <1>3, <2>1, <2>2 DEF Goes
  <2> QED  BY <1>2, <1>3, <2>3
<1>4. ASSUME NEW p \in Processes, Ends(p)  PROVE Arrives(a)
  <2>1. PICK job : job = IF p \in Admins THEN Idle ELSE Onward(p, jobs[p].todo)  OBVIOUS
  <2>2. p = a => job.step = "idle"  BY <2>1 DEF Idle
  <2>3. jobs' = [jobs EXCEPT ![p] = job]  BY <1>4, <2>1 DEF Ends
  <2> QED  BY <1>2, <2>2, <2>3
<1>5. ASSUME NEW b \in Admins, NextRole(b)  PROVE Arrives(a)
  <2>1. PICK job : job = [jobs[b] EXCEPT !.step = AfterRole(jobs[b]),
                                         !.todo = IF jobs[b].kind = "create" THEN Tail(@) ELSE @]
    OBVIOUS
  <2>2. {"step", "todo"} \subseteq DOMAIN jobs[b]  BY <1>1 DEF JobsIn, JobOK, JobIn
  <2>3. AfterRole(jobs[b]) \notin {"row", "insert"}  BY DEF AfterRole
  <2>4. job.step = AfterRole(jobs[b])  BY <2>1, <2>2
  <2>5. jobs' = [jobs EXCEPT ![b] = job]  BY <1>5, <2>1 DEF NextRole
  <2> QED  BY <1>1, <1>2, <2>3, <2>4, <2>5
<1>6. ASSUME NEW b \in Admins, Writes(b)  PROVE Arrives(a)
  <2>1. CASE Rebuild(b)
    <3>1. PICK job : job = [jobs[b] EXCEPT !.step = "rebuilt", !.seen = ButtonsOf(jobs[b].m)]  OBVIOUS
    <3>2. {"step", "seen"} \subseteq DOMAIN jobs[b]  BY <1>1 DEF JobsIn, JobOK, JobIn
    <3>3. job.step = "rebuilt" /\ jobs' = [jobs EXCEPT ![b] = job]  BY <2>1, <3>1, <3>2 DEF Rebuild
    <3> QED  BY <1>1, <1>2, <3>3
  <2>2. CASE Count(b) /\ Goes(b, "insert")
    <3>1. CASE a = b
      <4>1. PICK m : m = jobs[b].m  OBVIOUS
      <4>2. PICK next : next = [jobs[b] EXCEPT !.step = "insert"]  OBVIOUS
      <4>3. "step" \in DOMAIN jobs[b]  BY <1>1 DEF JobsIn, JobOK, JobIn
      <4>4. next = [jobs[b] EXCEPT !.step = "insert"] /\ next.step = "insert"  BY <4>2, <4>3
      <4>5. jobs'[b] = next  BY <1>1, <2>2, <4>4 DEF Goes
      <4>6. jobs[b].step = "add"  BY <2>2 DEF Count
      <4>7. jobs'[b] # Idle  BY <4>4, <4>5 DEF Idle
      <4>8. ~Ends(b)  BY <1>1, <4>7 DEF Ends
      <4>9. ~NextRole(b)
        <5>1. ASSUME NextRole(b)  PROVE jobs'[b].step = AfterRole(jobs[b])
          BY <1>1, <5>1 DEF NextRole, JobsIn, JobOK, JobIn
        <5>2. AfterRole(jobs[b]) # "insert"  BY DEF AfterRole
        <5> QED  BY <4>4, <4>5, <5>1, <5>2
      <4>10. m \in DOMAIN rows /\ ~(Len(buttons[m]) >= MAX_PANEL_ITEMS)  BY <2>2, <4>1, <4>8, <4>9 DEF Count
      <4>11. Len(buttons[m]) < MAX_PANEL_ITEMS  BY <4>10, RolePanelsAssumption DEF RowsIn
      <4> QED  BY <2>2, <3>1, <4>1, <4>11 DEF Arrives
    <3>2. CASE a # b  BY <1>1, <2>2, <3>2 DEF Goes, Arrives
    <3> QED  BY <3>1, <3>2
  <2> QED
    BY <1>1, <1>3, <1>4, <1>5, <1>6, <2>1, <2>2
    DEF Writes, WriteRow, Count, Insert, Take, Rebuilt, Strip
<1>7. ASSUME NEW p \in Processes, Registered(p) \/ Renders(p) \/ Erase(p) \/ Drop(p)  PROVE Arrives(a)
  <2>1. ASSUME NEW step \in {"heard", "ensured"}, NEW heard, jobs' = [jobs EXCEPT ![p].step = step, ![p].heard = heard]
        PROVE  Arrives(a)
    <3>1. PICK job : job = [jobs[p] EXCEPT !.step = step, !.heard = heard]  OBVIOUS
    <3>2. {"step", "heard"} \subseteq DOMAIN jobs[p]  BY <1>1 DEF JobsIn, JobOK, JobIn
    <3>3. job.step = step /\ jobs' = [jobs EXCEPT ![p] = job]  BY <2>1, <3>1, <3>2
    <3> QED  BY <1>2, <3>3
  <2>2. CASE Listen(p) \/ Ensure(p)  BY <2>1, <2>2 DEF Listen, Ensure
  <2>3. CASE Ensured(p)
    <3>1. PICK step \in {"look", "mark"} : step = IF jobs[p].kind = "refresh" THEN "look" ELSE "mark"  OBVIOUS
    <3>2. PICK job : job = [jobs[p] EXCEPT !.step = step, !.view = jobs[p].heard, !.heard = <<>>]  OBVIOUS
    <3>3. {"step", "view", "heard"} \subseteq DOMAIN jobs[p]  BY <1>1 DEF JobsIn, JobOK, JobIn
    <3>4. job.step = step /\ jobs' = [jobs EXCEPT ![p] = job]  BY <2>3, <3>1, <3>2, <3>3 DEF Ensured
    <3> QED  BY <1>2, <3>4
  <2>4. CASE Registered(p)
    <3>1. CASE Ends(p)  BY <1>4, <3>1
    <3>2. CASE jobs[p].kind # "hear"
      <4>1. PICK job : job = [jobs[p] EXCEPT !.step = AfterRegister(jobs[p]), !.heard = <<>>]  OBVIOUS
      <4>2. {"step", "heard"} \subseteq DOMAIN jobs[p]  BY <1>1 DEF JobsIn, JobOK, JobIn
      <4>3. job.step = AfterRegister(jobs[p])  BY <4>1, <4>2
      <4>4. jobs' = [jobs EXCEPT ![p] = job]  BY <2>4, <3>2, <4>1 DEF Registered
      <4> QED  BY <1>2, <4>3, <4>4 DEF AfterRegister
    <3> QED  BY <2>4, <3>1, <3>2 DEF Registered
  <2>5. CASE Edit(p)  BY <1>3, <1>4, <2>5 DEF Edit, AfterEdit
  <2>6. CASE Register(p) \/ Hear(p) \/ Store(p) \/ Forget(p)
    BY <1>3, <1>4, <2>4, <2>6 DEF Register, Hear, Store, Forget
  <2>7. CASE Mark(p) \/ Erase(p) \/ Drop(p)  BY <1>3, <1>4, <2>7 DEF Mark, Erase, Drop
  <2> QED  BY <1>7, <2>2, <2>3, <2>4, <2>5, <2>6, <2>7 DEF Renders, Registers, Marks
<1>8. ASSUME NEW b \in Admins, GetPanel(b) \/ List(b)  PROVE Arrives(a)
  <2>1. {"step", "view", "mode", "seen"} \subseteq DOMAIN jobs[b]  BY <1>1 DEF JobsIn, JobOK, JobIn
  <2>2. CASE Ends(b)  BY <1>1, <1>4, <2>2
  <2>3. \/ Ends(b)
        \/ /\ jobs'[b].step \notin {"row", "insert"}
           /\ \A p \in Processes \ {b} : jobs'[p] = jobs[p]
    BY <1>1, <1>8, <2>1 DEF GetPanel, List
  <2> QED  BY <1>1, <2>2, <2>3 DEF Arrives
<1>9. CASE Begin("refresh") \/ Begin("clean") \/ Panel \/ Look \/ Blank \/ Probe
  <2>1. jobs'[a] = jobs[a]  BY <1>1, <1>9 DEF Begin, Panel, Look, Blank, Probe, Ends, Goes
  <2> QED  BY <2>1 DEF Arrives
<1>10. ASSUME NEW b \in Admins, Requests(b)  PROVE Arrives(a)
  <2>1. CASE \E bs \in SeqOf(Button, Cardinality(Roles)), mode \in Modes : Create(b, bs, mode)
    BY <1>1, <2>1 DEF Create, Arrives
  <2>2. ASSUME NEW kind, NEW step \in {"add", "take", "erase"}, NEW m, NEW todo, NEW mode, Asks(b, kind, step, m, todo, mode)
        PROVE  Arrives(a)
    <3>1. PICK job : job = Asked(kind, step, m, todo, mode)  OBVIOUS
    <3>2. job.step = step  BY <3>1 DEF Asked, Idle
    <3>3. jobs' = [jobs EXCEPT ![b] = job]  BY <2>2, <3>1 DEF Asks, Asked
    <3> QED  BY <1>1, <1>2, <3>2, <3>3
  <2> QED  BY <1>10, <2>1, <2>2 DEF Requests, AskAdd, AskDelete, AskRemove
<1>11. CASE UNCHANGED jobs  BY <1>11 DEF Arrives
<1>12. CASE Restart
  <2>1. jobs'[a].step = "idle"  BY <1>1, <1>12 DEF Restart, Idle
  <2> QED  BY <2>1 DEF Arrives
<1>13. ASSUME NEW p \in Processes, Fails(p)  PROVE Arrives(a)
  <2>1. CASE jobs' = [jobs EXCEPT ![p] = Idle]
    <3>1. Idle.step = "idle"  BY DEF Idle
    <3> QED  BY <1>2, <2>1, <3>1
  <2> QED  BY <1>4, <1>7, <1>13, <2>1 DEF Fails
<1>14. Refreshes \/ Cleans => \/ Begin("refresh") \/ Begin("clean") \/ Panel \/ Look \/ Blank \/ Probe
                              \/ Renders("refresh") \/ Drop("clean")
  BY DEF Refreshes, Cleans
<1>15. Settles \/ Uses \/ (\E m \in Messages : Vanish(m)) => UNCHANGED jobs  BY Untouched
<1> QED
  BY <1>1, <1>6, <1>7, <1>8, <1>9, <1>10, <1>11, <1>12, <1>13, <1>14, <1>15, NextIs DEF AnyStep, Commands

\* The rows of a panel, and its buttons: who writes them.
LEMMA PanelsMove ==
  ASSUME NEW K, RowsIn(K), JobsIn(K), Next
  PROVE  \/ \E a \in Admins : WriteRow(a) \/ Insert(a)
         \/ /\ DOMAIN rows' \subseteq DOMAIN rows /\ DOMAIN buttons' \subseteq DOMAIN buttons
            /\ \A m \in DOMAIN buttons' : buttons'[m] = buttons[m] \/ Len(buttons'[m]) < Len(buttons[m])
<1> DEFINE Fewer == /\ DOMAIN rows' \subseteq DOMAIN rows /\ DOMAIN buttons' \subseteq DOMAIN buttons
                    /\ \A m \in DOMAIN buttons' : buttons'[m] = buttons[m] \/ Len(buttons'[m]) < Len(buttons[m])
<1>1. CASE UNCHANGED <<rows, buttons>>  BY <1>1
<1>2. ASSUME NEW m, NEW view, rows' = WithView(m, view) \/ rows' = WithBoth(m, view), UNCHANGED buttons  PROVE Fewer
  <2>1. DOMAIN rows' = DOMAIN rows  BY <1>2 DEF WithView, WithBoth
  <2> QED  BY <1>2, <2>1
<1>3. ASSUME NEW p \in Processes, Marks(p)  PROVE Fewer
  BY <1>1, <1>2, <1>3 DEF Marks, Ensure, Ensured, Mark, panelVars
<1>4. ASSUME NEW a \in Admins, Rebuilt(a)  PROVE Fewer  BY <1>2, <1>4 DEF Rebuilt
<1>5. ASSUME NEW p \in Processes, Drop(p)  PROVE Fewer
  <2>1. rows' = Without(rows, jobs[p].m) /\ buttons' = Without(buttons, jobs[p].m)  BY <1>5 DEF Drop
  <2> QED  BY <2>1 DEF Without, Restrict
<1>6. ASSUME NEW a \in Admins, Take(a), buttons' # buttons  PROVE Fewer
  <2>1. PICK m : m = jobs[a].m  OBVIOUS
  <2>2. PICK i \in DOMAIN buttons[m] : buttons' = [buttons EXCEPT ![m] = RemoveAt(buttons[m], i)]
    BY <1>6, <2>1 DEF Take
  <2>3. UNCHANGED rows  BY <1>6 DEF Take
  <2>4. m \in DOMAIN buttons => Len(RemoveAt(buttons[m], i)) < Len(buttons[m])
    <3>1. SUFFICES ASSUME m \in DOMAIN buttons  PROVE Len(RemoveAt(buttons[m], i)) < Len(buttons[m])
      OBVIOUS
    <3>2. PICK bs \in Seq(ButtonIn(K)) : bs = buttons[m]  BY <3>1 DEF RowsIn
    <3>3. PICK cs : cs = RemoveAt(bs, i)  OBVIOUS
    <3>4. i \in DOMAIN bs  BY <2>2, <3>2
    <3>5. Len(RemoveAt(bs, i)) = Len(bs) - 1  BY <3>2, <3>4, RemoveIs
    <3>6. Len(cs) = Len(bs) - 1  BY <3>3, <3>5
    <3>7. Len(bs) \in Nat  BY <3>2
    <3>8. PICK n \in Nat : n = Len(bs)  BY <3>7
    <3>9. Len(cs) < Len(bs)  BY <3>6, <3>8
    <3> QED  BY <3>2, <3>3, <3>9
  <2> QED  BY <2>2, <2>3, <2>4
<1>7. ASSUME NEW a \in Admins, Commands(a)  PROVE WriteRow(a) \/ Insert(a) \/ Fewer
  <2>1. CASE Take(a)
    <3>1. UNCHANGED rows  BY <2>1 DEF Take
    <3> QED  BY <1>1, <1>6, <2>1, <3>1
  <2>2. CASE Count(a) \/ Rebuild(a) \/ Strip(a)
    <3>1. UNCHANGED <<rows, buttons>>  BY <2>2 DEF Count, Rebuild, Strip, panelVars
    <3> QED  BY <1>1, <3>1
  <2> QED
    BY <1>1, <1>3, <1>4, <1>5, <1>7, <2>1, <2>2, UntouchedBy, LoopsAreNot DEF Commands, Writes, Renders
<1>8. Refreshes \/ Cleans => Fewer
  BY <1>1, <1>3, <1>5, UntouchedBy, LoopsAreNot DEF Refreshes, Cleans, Renders
<1>9. \/ \E a \in Admins : Requests(a)
      \/ Settles \/ Uses \/ Restart \/ (\E p \in Processes : Fails(p)) \/ (\E m \in Messages : Vanish(m))
      => Fewer
  BY <1>1, Untouched
<1> QED  BY <1>7, <1>8, <1>9, NextIs DEF AnyStep

LEMMA Creates ==
  ASSUME NEW K, JobsIn(K), NEW a \in Admins, NEW bs, NEW mode, Create(a, bs, mode)
  PROVE  /\ spent'.panels = spent.panels + 1 /\ jobs'[a].step = "row" /\ jobs'[a].m = spent.panels + 1
         /\ \A b \in Admins \ {a} : jobs'[b] = jobs[b]
         /\ UNCHANGED <<rows, buttons>>
<1>1. PICK m : m = spent.panels + 1  OBVIOUS
<1>2. PICK job : job = [Idle EXCEPT !.kind = "create", !.step = "row", !.m = m, !.todo = Visible(bs), !.mode = mode]
  OBVIOUS
<1>3. job.step = "row" /\ job.m = m  BY <1>2 DEF Idle
<1>4. jobs' = [jobs EXCEPT ![a] = job] /\ UNCHANGED <<rows, buttons>>
  BY <1>1, <1>2 DEF Create, panelVars
<1>5. spent' = [spent EXCEPT !.panels = m, !.edits = @ + 1]  BY <1>1 DEF Create
<1> QED  BY <1>1, <1>3, <1>4, <1>5, LoopsAreNot DEF JobsIn

\* A creation apart, no command comes to the writing of a row, nor is a panel counted.
LEMMA Otherwise ==
  ASSUME NEW K, RowsIn(K), JobsIn(K), TableOK, Next
  PROVE  \/ \E a \in Admins : \E bs, mode : Create(a, bs, mode)
         \/ /\ spent'.panels = spent.panels
            /\ \A a \in Admins : jobs'[a].step = "row" => jobs'[a] = jobs[a]
<1>1. SUFFICES ASSUME ~\E a \in Admins : \E bs, mode : Create(a, bs, mode)
               PROVE  /\ spent'.panels = spent.panels
                      /\ \A a \in Admins : jobs'[a].step = "row" => jobs'[a] = jobs[a]
  OBVIOUS
<1>2. spent'.panels = spent.panels
  <2>1. CASE Spends
    <3>1. PICK what \in {"edits", "changes", "faults"} : spent' = [spent EXCEPT ![what] = @ + 1]  BY <2>1 DEF Spends
    <3> QED  BY <3>1 DEF TableOK
  <2> QED  BY <1>1, <2>1, SpentMoves
<1>3. ASSUME NEW a \in Admins, jobs'[a].step = "row"  PROVE jobs'[a] = jobs[a]
  <2>1. Arrives(a)  BY Arrivals
  <2>2. CASE Count(a) /\ Goes(a, "insert")
    <3>1. "step" \in DOMAIN jobs[a] /\ a \in DOMAIN jobs  BY LoopsAreNot DEF JobsIn, JobOK, JobIn
    <3>2. jobs'[a].step = "insert"  BY <2>2, <3>1 DEF Goes
    <3> QED  BY <1>3, <3>2
  <2> QED  BY <1>1, <1>3, <2>1, <2>2 DEF Arrives
<1> QED  BY <1>2, <1>3

LEMMA RowWritten ==
  ASSUME NEW K, JobsIn(K), NEW a \in Admins, WriteRow(a)
  PROVE  /\ jobs[a].step = "row" /\ jobs'[a].step = "add"
         /\ DOMAIN rows' = DOMAIN rows \cup {jobs[a].m} /\ DOMAIN buttons' = DOMAIN buttons \cup {jobs[a].m}
         /\ buttons'[jobs[a].m] = <<>>
         /\ \A m \in DOMAIN buttons \ {jobs[a].m} : buttons'[m] = buttons[m]
<1>1. "step" \in DOMAIN jobs[a] /\ a \in DOMAIN jobs  BY LoopsAreNot DEF JobsIn, JobOK, JobIn
<1>2. jobs[a].step = "row" /\ jobs'[a].step = "add"  BY <1>1 DEF WriteRow, Goes
<1>3. PICK m : m = jobs[a].m  OBVIOUS
<1>4. PICK row : rows' = With(rows, m, row) /\ buttons' = With(buttons, m, <<>>)  BY <1>3 DEF WriteRow
<1> QED  BY <1>2, <1>3, <1>4 DEF With

LEMMA BornStep ==
  ASSUME NEW K, TableOK, Born, RowsIn(K), JobsIn(K), Next
  PROVE  Born'
<1> DEFINE n == spent.panels
<1>1. n \in Nat /\ DOMAIN rows \subseteq Messages  BY DEF TableOK, RowsIn
<1> HIDE DEF n
<1>2. /\ \A m \in DOMAIN rows : m <= n
      /\ \A a \in Admins : jobs[a].step = "row" =>
            /\ jobs[a].m \in 1 .. n /\ jobs[a].m \notin DOMAIN rows
            /\ \A b \in Admins \ {a} : jobs[b].step = "row" => jobs[b].m # jobs[a].m
  BY DEF Born, n
<1>3. \A m \in Messages : m \in Nat  BY RolePanelsAssumption DEF Messages
<1>4. CASE \E a \in Admins : \E bs, mode : Create(a, bs, mode)
  <2> PICK a \in Admins : \E bs, mode : Create(a, bs, mode)  BY <1>4
  <2>1. PICK bs, mode : Create(a, bs, mode)  OBVIOUS
  <2>2. /\ spent'.panels = n + 1 /\ jobs'[a].step = "row" /\ jobs'[a].m = n + 1
        /\ \A b \in Admins \ {a} : jobs'[b] = jobs[b]
        /\ UNCHANGED <<rows, buttons>>
    BY <2>1, Creates DEF n
  <2>3. n + 1 \notin DOMAIN rows  BY <1>1, <1>2, <1>3
  <2>4. \A m \in DOMAIN rows' : m <= spent'.panels  BY <1>1, <1>2, <1>3, <2>2
  <2>5. ASSUME NEW b \in Admins, jobs'[b].step = "row"
        PROVE  /\ jobs'[b].m \in 1 .. spent'.panels /\ jobs'[b].m \notin DOMAIN rows'
               /\ \A c \in Admins \ {b} : jobs'[c].step = "row" => jobs'[c].m # jobs'[b].m
    <3>1. \A c \in Admins \ {a} : jobs'[c].step = "row" => jobs'[c].m \in 1 .. n
      BY <1>2, <2>2
    <3>2. n + 1 \notin 1 .. n /\ n + 1 \in 1 .. n + 1 /\ 1 .. n \subseteq 1 .. n + 1  BY <1>1
    <3>3. CASE b = a  BY <2>2, <2>3, <3>1, <3>2, <3>3
    <3>4. CASE b # a  BY <1>2, <2>2, <2>5, <3>1, <3>2, <3>4
    <3> QED  BY <3>3, <3>4
  <2> QED  BY <2>4, <2>5 DEF Born
<1>5. ASSUME spent'.panels = n, \A a \in Admins : jobs'[a].step = "row" => jobs'[a] = jobs[a]
      PROVE  Born'
  <2>1. CASE \E a \in Admins : WriteRow(a)
    <3>1. PICK a \in Admins : WriteRow(a)  BY <2>1
    <3>2. jobs[a].step = "row" /\ jobs'[a].step = "add" /\ DOMAIN rows' = DOMAIN rows \cup {jobs[a].m}
      BY <3>1, RowWritten
    <3>3. jobs[a].m \in 1 .. n  BY <1>2, <3>2
    <3>4. jobs[a].m <= n  BY <1>1, <3>3
    <3>5. \A m \in DOMAIN rows' : m <= spent'.panels  BY <1>2, <1>5, <3>2, <3>4
    <3>6. ASSUME NEW b \in Admins, jobs'[b].step = "row"
          PROVE  /\ jobs'[b].m \in 1 .. spent'.panels /\ jobs'[b].m \notin DOMAIN rows'
                 /\ \A c \in Admins \ {b} : jobs'[c].step = "row" => jobs'[c].m # jobs'[b].m
      BY <1>2, <1>5, <3>2, <3>6
    <3> QED  BY <3>5, <3>6 DEF Born
  <2>2. CASE DOMAIN rows' \subseteq DOMAIN rows  BY <1>2, <1>5, <2>2 DEF Born
  <2>3. ASSUME NEW a \in Admins, Insert(a)  PROVE DOMAIN rows' \subseteq DOMAIN rows
    BY <2>3 DEF Insert
  <2> QED  BY <2>1, <2>2, <2>3, PanelsMove
<1> QED  BY <1>4, <1>5, Otherwise DEF n

LEMMA SameIn ==
  ASSUME NEW K, K = Known', RolesIn(K)'
  PROVE  RolesIn(Known)'
<1>1. ButtonIn(Known') = ButtonIn(K)  BY DEF ButtonIn
<1> QED
  BY <1>1 DEF RolesIn, RowsIn, RowIn, ShownIn, PostedIn, FaceIn, HandledIn, HeardIn, HadIn, JobsIn, JobOK, JobIn, Todo, ButtonIn

LEMMA PanelsInit == Init => PanelsInv
<1> SUFFICES ASSUME Init  PROVE PanelsInv
  OBVIOUS
<1> USE RolePanelsAssumption DEF Init
<1>1. TableOK  BY DEF TableOK
<1>2. DOMAIN rows = {} /\ DOMAIN buttons = {} /\ DOMAIN posted = {} /\ DOMAIN handled = {} /\ DOMAIN listener = {}
  OBVIOUS
<1>3. Born  BY <1>2, LoopsAreNot DEF Born, Idle
<1>4. RowsIn(Known)  BY <1>2 DEF RowsIn
<1>5. ShownIn(Known)  BY <1>2 DEF ShownIn, PostedIn, HandledIn, HeardIn
<1>6. HadIn(Known)  BY DEF HadIn
<1>7. JobsIn(Known)  BY IdleOK DEF JobsIn
<1> QED  BY <1>1, <1>3, <1>4, <1>5, <1>6, <1>7 DEF PanelsInv, RolesIn

LEMMA PanelsInductive == PanelsInv /\ [Next]_vars => PanelsInv'
<1>1. ASSUME PanelsInv, UNCHANGED vars  PROVE PanelsInv'
  <2>1. UNCHANGED <<table, auto, safe, has, rows, buttons, posted, listener, handled, cleaner, jobs, spent>>
    BY <1>1 DEF vars, roleVars, panelVars, memory
  <2>2. Known' = Known  BY <2>1 DEF Known
  <2>3. TableOK' /\ Born'  BY <1>1, <2>1 DEF PanelsInv, TableOK, Born
  <2>4. PICK K : K = Known  OBVIOUS
  <2>5. RowsIn(K) /\ ShownIn(K) /\ HadIn(K) /\ JobsIn(K)  BY <1>1, <2>4 DEF PanelsInv, RolesIn
  <2>6. RolesIn(K)'  BY <2>1, <2>5, Kept DEF RolesIn, ShownIn
  <2>7. RolesIn(Known)'  BY <2>2, <2>4, <2>6, SameIn
  <2> QED  BY <2>3, <2>7 DEF PanelsInv
<1>2. ASSUME PanelsInv, Next  PROVE PanelsInv'
  <2>1. TableOK /\ Born /\ RolesIn(Known)  BY <1>2 DEF PanelsInv
  <2>2. TableOK' /\ Known \subseteq Known'  BY <1>2, <2>1, TableStep
  <2>3. PICK K : K = Known'  OBVIOUS
  <2>4. PICK J : J = Known  OBVIOUS
  <2>5. RolesIn(J)  BY <2>1, <2>4
  <2>6. RolesIn(K)  BY <2>2, <2>3, <2>4, <2>5, Widened
  <2>7. Known \subseteq K /\ K \subseteq Roles  BY <2>2, <2>3 DEF Known
  <2>8. RolesIn(K)'  BY <1>2, <2>1, <2>6, <2>7, RolesStay
  <2>9. Born'  BY <1>2, <2>1, <2>6, BornStep DEF RolesIn
  <2> QED  BY <2>2, <2>3, <2>8, <2>9, SameIn DEF PanelsInv
<1> QED  BY <1>1, <1>2

LEMMA PanelsHold == Spec => []PanelsInv
  BY PanelsInit, PanelsInductive, PTL DEF Spec

\* Whoever edits panels at the same time, whatever roles change and whatever fails or is restarted:
\* the bot gives no role that it does not know, although buttons, messages, the listener and the
\* callbacks outlive what they were made of.
THEOREM RolesKnown == Spec => []OnlyKnownRoles
<1>1. PanelsInv => OnlyKnownRoles  BY DEF PanelsInv, RolesIn, HadIn, OnlyKnownRoles
<1> QED  BY <1>1, PanelsHold, PTL

-----------------------------------------------------------------------------
(* The limit of buttons.                                                   *)

\* Who has counted the buttons of a panel and is about to add one.
Inserting(m) == {a \in Admins : jobs[a].step = "insert" /\ jobs[a].m = m}
LimitInv ==
    \A m \in DOMAIN buttons :
        Len(buttons[m]) + Cardinality(Inserting(m)) <= MAX_PANEL_ITEMS + Cardinality(Admins) - 1

LEMMA FewerInserting ==
  ASSUME NEW m, NEW S, S \subseteq Inserting(m)
  PROVE  /\ IsFiniteSet(S) /\ IsFiniteSet(Inserting(m)) /\ Cardinality(S) \in Nat
         /\ Cardinality(S) <= Cardinality(Inserting(m)) /\ Cardinality(Inserting(m)) <= Cardinality(Admins)
         /\ Cardinality(Inserting(m)) \in Nat /\ Cardinality(Admins) \in Nat
  BY RolePanelsAssumption, FS_Subset, FS_CardinalityType DEF Inserting

\* With no more about to add a button, and no more buttons, a panel stays in the limit.
LEMMA StaysInLimit ==
  ASSUME NEW m \in DOMAIN buttons, LimitInv, NEW k \in Nat, k = Len(buttons'[m]),
         NEW l \in Nat, l = Len(buttons[m]), NEW S, S = Inserting(m)', S \subseteq Inserting(m),
         k <= l
  PROVE  Len(buttons'[m]) + Cardinality(Inserting(m)') <= MAX_PANEL_ITEMS + Cardinality(Admins) - 1
<1>1. PICK c \in Nat : c = Cardinality(S)  BY FewerInserting
<1>2. PICK d \in Nat : d = Cardinality(Inserting(m)) /\ c <= d  BY <1>1, FewerInserting
<1>3. Cardinality(Admins) \in Nat /\ MAX_PANEL_ITEMS \in Nat  BY RolePanelsAssumption, FewerInserting
<1>4. PICK most \in Int : most = MAX_PANEL_ITEMS + Cardinality(Admins) - 1  BY <1>3
<1>5. l + d <= most  BY <1>2, <1>4 DEF LimitInv
<1>6. k + c <= most  BY <1>1, <1>2, <1>4, <1>5
<1> QED  BY <1>1, <1>4, <1>6

LEMMA AnyInserting ==
  ASSUME NEW m, NEW S, S = Inserting(m)'
  PROVE  S \subseteq Admins /\ Cardinality(S) \in Nat /\ Cardinality(S) <= Cardinality(Admins) /\ Cardinality(Admins) \in Nat
<1>1. S \subseteq Admins  BY DEF Inserting
<1> QED  BY <1>1, RolePanelsAssumption, FS_Subset, FS_CardinalityType

LEMMA InsertFits ==
  ASSUME NEW K, RowsIn(K), JobsIn(K), LimitInv, NEW a \in Admins, Insert(a), buttons' # buttons,
         NEW m, m = jobs[a].m
  PROVE  /\ \A o \in DOMAIN buttons \ {m} : buttons'[o] = buttons[o]
         /\ Len(buttons'[m]) + Cardinality(Inserting(m)') <= MAX_PANEL_ITEMS + Cardinality(Admins) - 1
<1>1. m = jobs[a].m  OBVIOUS
<1>2. m \in DOMAIN rows /\ jobs[a].step = "insert" /\ Goes(a, "rebuild")  BY <1>1 DEF Insert
<1>3. DOMAIN buttons = DOMAIN rows  BY DEF RowsIn
<1>4. PICK bs \in Seq(ButtonIn(K)) : bs = buttons[m]  BY <1>2, <1>3 DEF RowsIn
<1>5. PICK b : buttons' = [buttons EXCEPT ![m] = Append(bs, b)]  BY <1>1, <1>2, <1>4 DEF Insert
<1>6. buttons'[m] = Append(bs, b)  BY <1>2, <1>3, <1>5
<1>7. PICK l \in Nat : l = Len(bs)  BY <1>4
<1>8. Len(buttons'[m]) = l + 1  BY <1>4, <1>6, <1>7
<1>9. jobs'[a].step = "rebuild" /\ \A c \in Admins \ {a} : jobs'[c] = jobs[c]
  BY <1>2, LoopsAreNot DEF Goes, JobsIn, JobOK, JobIn
<1>10. PICK S : S = Inserting(m)'  OBVIOUS
<1>11. S \subseteq Inserting(m) \ {a}  BY <1>9, <1>10 DEF Inserting
<1>12. a \in Inserting(m)  BY <1>1, <1>2 DEF Inserting
<1>13. IsFiniteSet(Inserting(m)) /\ IsFiniteSet(Inserting(m) \ {a})  BY <1>11, FewerInserting
<1>14. PICK d \in Nat : d = Cardinality(Inserting(m))  BY <1>13, FS_CardinalityType
<1>15. PICK e \in Nat : e = Cardinality(Inserting(m) \ {a})  BY <1>13, FS_CardinalityType
<1>16. e = d - 1  BY <1>12, <1>13, <1>14, <1>15, FS_RemoveElement
<1>17. PICK c \in Nat : c = Cardinality(S) /\ c <= e  BY <1>11, <1>13, <1>15, FS_Subset, FS_CardinalityType
<1>18. PICK most \in Int : most = MAX_PANEL_ITEMS + Cardinality(Admins) - 1
  BY RolePanelsAssumption, FS_CardinalityType
<1>19. l + d <= most  BY <1>2, <1>3, <1>4, <1>7, <1>14, <1>18 DEF LimitInv
<1>20. l + 1 + c <= most  BY <1>16, <1>17, <1>18, <1>19
<1>21. Len(buttons'[m]) + Cardinality(Inserting(m)') <= most  BY <1>8, <1>10, <1>17, <1>20
<1>22. \A o \in DOMAIN buttons \ {m} : buttons'[o] = buttons[o]  BY <1>5
<1> QED  BY <1>18, <1>21, <1>22

LEMMA LimitStep == ASSUME PanelsInv, PanelsInv', LimitInv, Next  PROVE LimitInv'
<1> DEFINE Fits(m) == Len(buttons'[m]) + Cardinality(Inserting(m)') <= MAX_PANEL_ITEMS + Cardinality(Admins) - 1
<1>1. SUFFICES ASSUME NEW m \in DOMAIN buttons'  PROVE Fits(m)
  BY DEF LimitInv
<1>2. PICK K : K = Known  OBVIOUS
<1>3. RowsIn(K) /\ JobsIn(K) /\ TableOK  BY <1>2 DEF PanelsInv, RolesIn
<1>4. Admins \subseteq Processes /\ DOMAIN jobs = Processes  BY <1>3, LoopsAreNot DEF JobsIn
<1>5. PICK k \in Nat : k = Len(buttons'[m])  BY <1>1 DEF PanelsInv, RolesIn, RowsIn
<1>6. PICK S : S = Inserting(m)'  OBVIOUS
<1>7. PICK c, n \in Nat : c = Cardinality(S) /\ n = Cardinality(Admins) /\ c <= n  BY <1>6, AnyInserting
<1>8. MAX_PANEL_ITEMS \in Nat \ {0}  BY RolePanelsAssumption
<1>9. ASSUME S \subseteq Inserting(m), m \in DOMAIN buttons, buttons'[m] = buttons[m] \/ k < Len(buttons[m])
      PROVE  Fits(m)
  <2>1. PICK l \in Nat : l = Len(buttons[m])  BY <1>3, <1>9 DEF RowsIn
  <2>2. k <= l  BY <1>5, <1>9, <2>1
  <2> QED  BY <1>5, <1>6, <1>9, <2>1, <2>2, StaysInLimit
<1>10. ASSUME k < MAX_PANEL_ITEMS  PROVE Fits(m)
  <2>1. k + c <= MAX_PANEL_ITEMS + n - 1  BY <1>5, <1>7, <1>8, <1>10
  <2> QED  BY <1>5, <1>6, <1>7, <2>1
<1>11. ASSUME NEW a \in Admins, Count(a), Goes(a, "insert"), Len(buttons[jobs[a].m]) < MAX_PANEL_ITEMS
       PROVE  Fits(m)
  <2>1. UNCHANGED buttons  BY <1>11 DEF Count, panelVars
  <2>2. CASE m = jobs[a].m  BY <1>5, <1>10, <1>11, <2>1, <2>2
  <2>3. CASE m # jobs[a].m
    <3>1. jobs'[a].m = jobs[a].m /\ \A b \in Admins \ {a} : jobs'[b] = jobs[b]
      BY <1>3, <1>4, <1>11 DEF Goes, JobsIn, JobOK, JobIn
    <3>2. S \subseteq Inserting(m)  BY <1>6, <2>3, <3>1 DEF Inserting
    <3> QED  BY <1>1, <1>9, <2>1, <3>2
  <2> QED  BY <2>2, <2>3
<1>12. ASSUME \A a \in Admins : jobs'[a].step = "insert" => jobs'[a] = jobs[a]
       PROVE  Fits(m)
  <2>1. S \subseteq Inserting(m)  BY <1>6, <1>12 DEF Inserting
  <2>2. CASE \E a \in Admins : WriteRow(a)
    <3>1. PICK a \in Admins : WriteRow(a)  BY <2>2
    <3>2. /\ DOMAIN buttons' = DOMAIN buttons \cup {jobs[a].m} /\ buttons'[jobs[a].m] = <<>>
          /\ \A o \in DOMAIN buttons \ {jobs[a].m} : buttons'[o] = buttons[o]
      BY <1>3, <3>1, RowWritten
    <3>3. CASE m = jobs[a].m
      <4>1. k = 0  BY <1>5, <3>2, <3>3
      <4> QED  BY <1>8, <1>10, <4>1
    <3>4. CASE m # jobs[a].m  BY <1>1, <1>9, <2>1, <3>2, <3>4
    <3> QED  BY <3>3, <3>4
  <2>3. CASE \E a \in Admins : Insert(a) /\ buttons' # buttons
    <3>1. PICK a \in Admins : Insert(a) /\ buttons' # buttons  BY <2>3
    <3>2. CASE m = jobs[a].m  BY <1>3, <3>1, <3>2, InsertFits
    <3>3. CASE m # jobs[a].m
      <4>1. PICK o : o = jobs[a].m  OBVIOUS
      <4>2. \A q \in DOMAIN buttons \ {o} : buttons'[q] = buttons[q]  BY <1>3, <3>1, <4>1, InsertFits
      <4>3. DOMAIN buttons' = DOMAIN buttons  BY <3>1 DEF Insert
      <4>4. m \in DOMAIN buttons /\ buttons'[m] = buttons[m]  BY <1>1, <3>3, <4>1, <4>2, <4>3
      <4> QED  BY <1>9, <2>1, <4>4
    <3> QED  BY <3>2, <3>3
  <2>4. CASE UNCHANGED buttons  BY <1>1, <1>9, <2>1, <2>4
  <2> QED  BY <1>1, <1>3, <1>5, <1>9, <2>1, <2>2, <2>3, <2>4, PanelsMove
<1>13. ASSUME NEW a \in Admins, jobs'[a].step = "insert", jobs'[a] # jobs[a]
       PROVE  Count(a) /\ Goes(a, "insert") /\ Len(buttons[jobs[a].m]) < MAX_PANEL_ITEMS
  <2>1. Arrives(a)  BY <1>3, Arrivals
  <2>2. CASE \E bs \in SeqOf(Button, Cardinality(Roles)), mode \in Modes : Create(a, bs, mode)
    <3>1. jobs'[a].step = "row"  BY <1>3, <2>2, Creates
    <3> QED  BY <1>13, <3>1
  <2> QED  BY <1>13, <2>1, <2>2 DEF Arrives
<1> QED  BY <1>11, <1>12, <1>13

LEMMA LimitInductive == PanelsInv /\ PanelsInv' /\ LimitInv /\ [Next]_vars => LimitInv'
<1>1. ASSUME LimitInv, UNCHANGED vars  PROVE LimitInv'
  <2>1. UNCHANGED <<buttons, jobs>>  BY <1>1 DEF vars, panelVars
  <2> QED  BY <1>1, <2>1 DEF LimitInv, Inserting
<1> QED  BY <1>1, LimitStep

\* However many administrators add buttons at the same time, a panel passes the limit of Discord by
\* one button less than there are administrators: role_service.py counts in one statement and
\* inserts in another.
THEOREM LimitKept == Spec => []LimitHolds
<1>1. Init => LimitInv  BY DEF Init, LimitInv
<1>2. PanelsInv /\ LimitInv => LimitHolds
  <2> SUFFICES ASSUME PanelsInv, LimitInv, NEW m \in DOMAIN buttons
               PROVE  Len(buttons[m]) <= MAX_PANEL_ITEMS + Cardinality(Admins) - 1
    BY DEF LimitHolds
  <2>1. PICK l \in Nat : l = Len(buttons[m])  BY DEF PanelsInv, RolesIn, RowsIn
  <2>2. PICK d \in Nat : d = Cardinality(Inserting(m))  BY FewerInserting
  <2>3. PICK most \in Int : most = MAX_PANEL_ITEMS + Cardinality(Admins) - 1  BY RolePanelsAssumption, FewerInserting
  <2>4. l + d <= most  BY <2>1, <2>2, <2>3 DEF LimitInv
  <2>5. l <= most  BY <2>1, <2>2, <2>3, <2>4
  <2> QED  BY <2>1, <2>3, <2>5
<1> QED  BY <1>1, <1>2, PanelsHold, LimitInductive, PTL DEF Spec

-----------------------------------------------------------------------------
(* A panel that is gone.                                                   *)

\* The panel was created, and nobody is about to write its row.
Over(m) == m \in 1 .. spent.panels /\ \A a \in Admins : jobs[a].step = "row" => jobs[a].m # m

LEMMA OverStep ==
  ASSUME PanelsInv, NEW m \in Messages, Over(m), [Next]_vars
  PROVE  Over(m)' /\ (m \notin DOMAIN rows => m \notin DOMAIN rows')
<1>1. CASE UNCHANGED vars  BY <1>1 DEF vars, panelVars, Over
<1>2. CASE Next
  <2>1. PICK K : K = Known  OBVIOUS
  <2>2. RowsIn(K) /\ JobsIn(K) /\ TableOK /\ Born  BY <2>1 DEF PanelsInv, RolesIn
  <2>3. PICK n \in Nat : n = spent.panels  BY <2>2 DEF TableOK
  <2>4. m \in 1 .. n  BY <2>3 DEF Over
  <2>5. CASE \E a \in Admins : \E bs, mode : Create(a, bs, mode)
    <3> PICK a \in Admins : \E bs, mode : Create(a, bs, mode)  BY <2>5
    <3>1. PICK bs, mode : Create(a, bs, mode)  OBVIOUS
    <3>2. /\ spent'.panels = n + 1 /\ jobs'[a].m = n + 1 /\ UNCHANGED rows
          /\ \A b \in Admins \ {a} : jobs'[b] = jobs[b]
      BY <2>2, <2>3, <3>1, Creates
    <3>3. m \in 1 .. n + 1 /\ m # n + 1  BY <2>3, <2>4
    <3> QED  BY <3>2, <3>3 DEF Over
  <2>6. ASSUME spent'.panels = spent.panels, \A a \in Admins : jobs'[a].step = "row" => jobs'[a] = jobs[a]
        PROVE  Over(m)' /\ (m \notin DOMAIN rows => m \notin DOMAIN rows')
    <3>1. Over(m)'  BY <2>6 DEF Over
    <3>2. ASSUME NEW a \in Admins, WriteRow(a)  PROVE m \notin DOMAIN rows => m \notin DOMAIN rows'
      <4>1. jobs[a].step = "row" /\ DOMAIN rows' = DOMAIN rows \cup {jobs[a].m}  BY <2>2, <3>2, RowWritten
      <4>2. jobs[a].m # m  BY <4>1 DEF Over
      <4> QED  BY <4>1, <4>2
    <3>3. ASSUME NEW a \in Admins, Insert(a)  PROVE m \notin DOMAIN rows => m \notin DOMAIN rows'
      BY <3>3 DEF Insert
    <3> QED  BY <1>2, <2>2, <3>1, <3>2, <3>3, PanelsMove
  <2> QED  BY <1>2, <2>2, <2>5, <2>6, Otherwise
<1> QED  BY <1>1, <1>2

\* Whoever still is about to write a button, a fingerprint or the mark of its rendering: a panel
\* that was removed stays removed, and leaves no row behind that nothing would remove.
THEOREM RemovedForGood == Spec => GoneForGood
<1>1. ASSUME NEW m \in Messages
      PROVE  Spec => [](m \in DOMAIN rows => [](m \notin DOMAIN rows => [](m \notin DOMAIN rows)))
  <2>1. PanelsInv /\ m \in DOMAIN rows => Over(m)
    BY RolePanelsAssumption DEF PanelsInv, Born, TableOK, Over, Messages
  <2>2. PanelsInv /\ Over(m) /\ [Next]_vars => Over(m)' /\ (m \notin DOMAIN rows => (m \notin DOMAIN rows)')
    BY OverStep
  <2> QED  BY <2>1, <2>2, PanelsHold, PTL DEF Spec
<1> QED  BY <1>1 DEF GoneForGood

-----------------------------------------------------------------------------
(* Types.                                                                   *)

LEMMA OnceCounted ==
  ASSUME NEW K, NEW bs \in Seq(ButtonIn(K)), Once(bs)
  PROVE  Cardinality(RolesOf(bs)) = Len(bs)
<1>1. PICK n \in Nat : n = Len(bs)  OBVIOUS
<1>2. DOMAIN bs = 1 .. n  BY <1>1
<1>3. PICK f : f = [i \in 1 .. n |-> bs[i].role]  OBVIOUS
<1>4. f \in [1 .. n -> RolesOf(bs)]  BY <1>2, <1>3 DEF RolesOf
<1>5. \A i, j \in 1 .. n : f[i] = f[j] => i = j  BY <1>2, <1>3 DEF Once
<1>6. \A r \in RolesOf(bs) : \E i \in 1 .. n : f[i] = r  BY <1>2, <1>3 DEF RolesOf
<1>7. ExistsBijection(1 .. n, RolesOf(bs))
  BY <1>4, <1>5, <1>6 DEF ExistsBijection, Bijection, Injection, Surjection, IsInjective
<1>8. IsFiniteSet(1 .. n) /\ Cardinality(1 .. n) = n  BY FS_Interval
<1> QED  BY <1>1, <1>7, FS_CountingElements

\* A panel and its buttons have their shape, and no role twice, for any number of administrators.
THEOREM PanelsTypeCorrect == Spec => []TypeOK
<1>1. ASSUME PanelsInv  PROVE TypeOK
  <2>1. TableOK /\ RowsIn(Known) /\ HadIn(Known) /\ JobsIn(Known)  BY <1>1 DEF PanelsInv, RolesIn
  <2>2. ButtonIn(Known) \subseteq Button  BY DEF ButtonIn, Button, Known
  <2>3. ASSUME NEW m \in DOMAIN rows
        PROVE  /\ Mode(m) \in Modes /\ buttons[m] \in Seq(Button)
               /\ Cardinality(RolesOf(buttons[m])) = Len(buttons[m])
    <3>1. rows[m] \in RowIn(Known) /\ buttons[m] \in Seq(ButtonIn(Known)) /\ Once(buttons[m])  BY <2>1 DEF RowsIn
    <3>2. buttons[m] \in Seq(Button)  BY <2>2, <3>1, SeqMonotonic
    <3> QED  BY <3>1, <3>2, OnceCounted DEF Mode, RowIn
  <2>4. \A p \in Processes : jobs[p].m \in Messages \cup {0}  BY <2>1 DEF JobsIn, JobOK, JobIn
  <2>5. auto \subseteq Roles /\ has \in [Members -> SUBSET Roles]  BY <2>1 DEF HadIn, Known
  <2> QED  BY <2>1, <2>3, <2>4, <2>5 DEF TypeOK, TableOK, RowsIn
<1> QED  BY <1>1, PanelsHold, PTL

-----------------------------------------------------------------------------
(* The settings.                                                           *)

LEMMA SettingsInit == Guild!Init => Guild!SettingsInv
<1>. SUFFICES ASSUME Guild!Init PROVE Guild!SettingsInv
  OBVIOUS
<1>1. Guild!TypeOK
  BY DEF Guild!Init, Guild!TypeOK, Guild!NoRow, Guild!Row, Guild!Closed, Guild!Form, Guild!Kinds,
         Guild!Nothing, Guild!Content, Guild!Unsent, Guild!Greeting, Guild!Document,
         Guild!Edit, Guild!Save
<1>2. Guild!GivenOwn /\ Guild!FreshIsCurrent /\ Guild!AloneSoFar /\ Guild!AloneIsExact
  BY DEF Guild!Init, Guild!GivenOwn, Guild!FreshIsCurrent, Guild!AloneSoFar, Guild!AloneIsExact, Guild!Closed
<1>. QED
  BY <1>1, <1>2 DEF Guild!SettingsInv

\* A step of a form keeps the invariant.
LEMMA FormStepKeeps ==
    ASSUME Guild!SettingsInv, NEW f \in Forms, Guild!FormStep(f)
    PROVE  (Guild!TypeOK /\ Guild!GivenOwn)'
<1>. USE DEF Guild!SettingsInv, Guild!TypeOK, Guild!GivenOwn, Guild!Form, Guild!Closed, Guild!Kinds,
     Guild!policyVars, Guild!coverVars
<1>0. Guild!Nothing \in Guild!Content
  BY DEF Guild!Nothing, Guild!Content
<1>1. ASSUME NEW kind \in Guild!Kinds, Guild!Open(f, kind) PROVE (Guild!TypeOK /\ Guild!GivenOwn)'
  BY <1>0, <1>1 DEF Guild!Open
<1>2. ASSUME NEW given \in Guild!Content, Guild!Submit(f, given) PROVE (Guild!TypeOK /\ Guild!GivenOwn)'
  BY <1>2 DEF Guild!Submit, Guild!MayGive
<1>3. CASE Guild!Look(f)
  BY <1>3 DEF Guild!Look
<1>4. CASE Guild!Update(f)
  <2>1. Guild!Given(f) \in Guild!Content
    BY DEF Guild!Given, Guild!Content, Guild!Row
  <2>2. welcome' \in Guild!Row
    BY <1>4, <2>1 DEF Guild!Update, Guild!Row
  <2>. QED
    BY <1>0, <1>4, <2>2 DEF Guild!Update
<1>5. CASE Guild!Insert(f)
  <2>1. welcome' \in Guild!Row
    BY <1>5 DEF Guild!Insert, Guild!Row
  <2>. QED
    BY <1>0, <1>5, <2>1 DEF Guild!Insert
<1>6. CASE Guild!Dropped(f)
  BY <1>0, <1>6 DEF Guild!Dropped
<1>. QED
  BY <1>1, <1>2, <1>3, <1>4, <1>5, <1>6 DEF Guild!FormStep

\* So does everything else about the welcome message.
LEMMA WelcomeStepKeeps ==
    ASSUME Guild!SettingsInv, Guild!WelcomeStep
    PROVE  Guild!SettingsInv'
<1>. USE DEF Guild!SettingsInv
<1>1. UNCHANGED Guild!policyVars /\ UNCHANGED Guild!coverVars
  BY DEF Guild!WelcomeStep, Guild!FormStep, Guild!Open, Guild!Submit, Guild!Look, Guild!Update, Guild!Insert,
         Guild!Dropped, Guild!Toggle, Guild!Reset, Guild!PageSaves,
         Guild!BuildsEmbed, Guild!GetsButtons
<1>2. (Guild!FreshIsCurrent /\ Guild!AloneSoFar /\ Guild!AloneIsExact)'
  BY <1>1 DEF Guild!FreshIsCurrent, Guild!AloneSoFar, Guild!AloneIsExact, Guild!policyVars, Guild!coverVars
<1>3. (Guild!TypeOK /\ Guild!GivenOwn)'
  <2>. USE DEF Guild!TypeOK, Guild!GivenOwn, Guild!policyVars, Guild!coverVars
  <2>0. Guild!Nothing \in Guild!Content
    BY DEF Guild!Nothing, Guild!Content
  <2>1. ASSUME NEW f \in Forms, Guild!FormStep(f) PROVE (Guild!TypeOK /\ Guild!GivenOwn)'
    BY <2>1, FormStepKeeps
  <2>2. ASSUME NEW is_enabled \in BOOLEAN, Guild!Toggle(is_enabled) PROVE (Guild!TypeOK /\ Guild!GivenOwn)'
    BY <2>2 DEF Guild!Toggle, Guild!Row
  <2>3. CASE Guild!Reset
    BY <2>0, <2>3 DEF Guild!Reset, Guild!NoRow, Guild!Row
  <2>4. ASSUME NEW fields \in Guild!Content, NEW is_enabled \in BOOLEAN, Guild!PageSaves(fields, is_enabled)
        PROVE  (Guild!TypeOK /\ Guild!GivenOwn)'
    BY <2>4 DEF Guild!PageSaves, Guild!Row
  <2>5. ASSUME NEW m \in Members, Guild!BuildsEmbed(m) PROVE (Guild!TypeOK /\ Guild!GivenOwn)'
    BY <2>0, <2>5 DEF Guild!BuildsEmbed, Guild!Unsent, Guild!Greeting, Guild!Row
  <2>6. ASSUME NEW m \in Members, Guild!GetsButtons(m) PROVE (Guild!TypeOK /\ Guild!GivenOwn)'
    <3>. DEFINE links == [x \in Guild!Fields |-> IF x = "rules_channel_id" THEN welcome.fields[x] ELSE Nil]
    <3>1. links \in Guild!Content
      BY DEF Guild!Content, Guild!Row
    <3>2. greeting' = [greeting EXCEPT ![m].step = "sent", ![m].links = links]
      BY <2>6 DEF Guild!GetsButtons
    <3>. HIDE DEF links
    <3>3. greeting' \in [Members -> Guild!Greeting]
      BY <3>1, <3>2 DEF Guild!Greeting
    <3>. QED
      BY <2>6, <3>3 DEF Guild!GetsButtons
  <2>. QED
    BY <2>1, <2>2, <2>3, <2>4, <2>5, <2>6 DEF Guild!WelcomeStep
<1>. QED
  BY <1>2, <1>3

\* A step about the policy keeps the invariant: whoever writes ends what is fresh of the others.
LEMMA PolicyStepKeeps ==
    ASSUME Guild!SettingsInv, Guild!PolicyStep
    PROVE  Guild!SettingsInv'
<1>. USE DEF Guild!SettingsInv, Guild!TypeOK
<1>1. UNCHANGED Guild!welcomeVars /\ UNCHANGED Guild!coverVars
  BY DEF Guild!PolicyStep, Guild!Reads, Guild!Writes, Guild!Refuses, Guild!PagePolicy
<1>2. (Guild!GivenOwn /\ Guild!AloneSoFar /\ Guild!AloneIsExact)'
  BY <1>1 DEF Guild!GivenOwn, Guild!AloneSoFar, Guild!AloneIsExact, Guild!welcomeVars, Guild!coverVars
<1>3. policy' \in Guild!Document /\ edit' \in [Editors -> Guild!Edit] /\ Guild!FreshIsCurrent'
  <2>. USE DEF Guild!FreshIsCurrent
  <2>1. ASSUME NEW e \in Editors, NEW section \in Sections, NEW value \in Values,
               Guild!Reads(e, section, value)
        PROVE  policy' \in Guild!Document /\ edit' \in [Editors -> Guild!Edit] /\ Guild!FreshIsCurrent'
    BY <2>1 DEF Guild!Reads, Guild!Edit, Guild!Document
  <2>2. ASSUME NEW e \in Editors, Guild!Writes(e)
        PROVE  policy' \in Guild!Document /\ edit' \in [Editors -> Guild!Edit] /\ Guild!FreshIsCurrent'
    <3>1. Guild!Stale(e) \in [Editors -> Guild!Edit] /\ Guild!Stale(e)[e] = edit[e]
      BY DEF Guild!Stale, Guild!Edit
    <3>2. policy' \in Guild!Document
      BY <2>2 DEF Guild!Writes, Guild!Edit
    <3>3. edit' \in [Editors -> Guild!Edit] /\ edit'[e].step = "idle"
      BY <2>2, <3>1 DEF Guild!Writes, Guild!Edit
    <3>4. \A i \in Editors : i # e => ~edit'[i].fresh
      BY <2>2, <3>1 DEF Guild!Writes, Guild!Stale, Guild!Edit
    <3>. QED
      BY <3>2, <3>3, <3>4
  <2>3. ASSUME NEW e \in Editors, Guild!Refuses(e)
        PROVE  policy' \in Guild!Document /\ edit' \in [Editors -> Guild!Edit] /\ Guild!FreshIsCurrent'
    BY <2>3 DEF Guild!Refuses, Guild!Edit
  <2>4. ASSUME NEW document \in Guild!Document, Guild!PagePolicy(document)
        PROVE  policy' \in Guild!Document /\ edit' \in [Editors -> Guild!Edit] /\ Guild!FreshIsCurrent'
    BY <2>4 DEF Guild!PagePolicy, Guild!Edit
  <2>. QED
    BY <2>1, <2>2, <2>3, <2>4 DEF Guild!PolicyStep
<1>. QED
  BY <1>1, <1>2, <1>3 DEF Guild!welcomeVars, Guild!coverVars

\* So does one about the covered channels: whoever deletes or inserts is the only one still alone.
LEMMA CoverStepKeeps ==
    ASSUME Guild!SettingsInv, Guild!CoverStep
    PROVE  Guild!SettingsInv'
<1>. USE DEF Guild!SettingsInv, Guild!TypeOK
<1>1. UNCHANGED Guild!welcomeVars /\ UNCHANGED Guild!policyVars
  BY DEF Guild!CoverStep, Guild!Requests, Guild!Deletes, Guild!Inserts, Guild!Fails, Guild!Adds
<1>2. (Guild!GivenOwn /\ Guild!FreshIsCurrent)'
  BY <1>1 DEF Guild!GivenOwn, Guild!FreshIsCurrent, Guild!welcomeVars, Guild!policyVars
<1>. DEFINE Held == /\ covered' \subseteq Channels
                    /\ save' \in [Saves -> Guild!Save]
                    /\ (Guild!AloneSoFar /\ Guild!AloneIsExact)'
<1>3. Held
  <2>0. \A i \in Saves : /\ save[i] \in Guild!Save
                         /\ [save[i] EXCEPT !.alone = FALSE] \in Guild!Save
                         /\ \A step \in {"idle", "delete", "insert", "done"} : [save[i] EXCEPT !.step = step] \in Guild!Save
    BY DEF Guild!Save
  <2>. USE DEF Guild!AloneSoFar, Guild!AloneIsExact
  <2>1. ASSUME NEW s \in Saves, NEW list \in SUBSET Channels, Guild!Requests(s, list) PROVE Held
    BY <2>1 DEF Guild!Requests, Guild!Save
  <2>2. ASSUME NEW s \in Saves, Guild!Deletes(s) PROVE Held
    <3>1. Guild!Disturbed(s) \in [Saves -> Guild!Save] /\ Guild!Disturbed(s)[s] = save[s]
      BY <2>0 DEF Guild!Disturbed
    <3>2. covered' = {} /\ save' = [Guild!Disturbed(s) EXCEPT ![s].step = Guild!After(save[s].left)]
      BY <2>2 DEF Guild!Deletes
    <3>3. \A i \in Saves : i # s => save'[i] = [save[i] EXCEPT !.alone = FALSE]
      BY <3>1, <3>2 DEF Guild!Disturbed
    <3>4. save'[s] = [save[s] EXCEPT !.step = Guild!After(save[s].left)]
      BY <3>1, <3>2
    <3>5. save[s].left = save[s].list
      BY <2>2 DEF Guild!Deletes
    <3>6. save'[s] \in Guild!Save
      BY <2>0, <3>4 DEF Guild!After
    <3>7. save' \in [Saves -> Guild!Save]
      BY <3>1, <3>2, <3>6
    <3>8. \A i \in Saves : i # s => ~save'[i].alone /\ save'[i].step = save[i].step
                                    /\ save'[i].left = save[i].left /\ save'[i].list = save[i].list
      <4>1. TAKE i \in Saves
      <4>2. HAVE i # s
      <4>3. save'[i] = [save[i] EXCEPT !.alone = FALSE] /\ save[i] \in Guild!Save
        BY <2>0, <3>3, <4>2
      <4>. QED
        BY <4>3 DEF Guild!Save
    <3>9. /\ save'[s].step = Guild!After(save[s].left) /\ save'[s].left = save[s].left
          /\ save'[s].list = save[s].list /\ save'[s].alone = save[s].alone
      BY <3>4 DEF Guild!Save
    <3>. QED
      BY <3>2, <3>5, <3>7, <3>8, <3>9 DEF Guild!After
  <2>3. ASSUME NEW s \in Saves, Guild!Fails(s) PROVE Held
    <3>1. save' \in [Saves -> Guild!Save] /\ save'[s].step = "idle"
      BY <2>0, <2>3 DEF Guild!Fails, Guild!Save
    <3>2. \A i \in Saves : i # s => save'[i] = save[i]
      BY <2>3 DEF Guild!Fails
    <3>. QED
      BY <2>3, <3>1, <3>2 DEF Guild!Fails
  <2>4. ASSUME NEW s \in Saves, NEW c \in Channels, Guild!Inserts(s, c) PROVE Held
    <3>1. Guild!Disturbed(s) \in [Saves -> Guild!Save] /\ Guild!Disturbed(s)[s] = save[s]
      BY <2>0 DEF Guild!Disturbed
    <3>. DEFINE rest == save[s].left \ {c}
    <3>2. /\ covered' = covered \cup {c} /\ save[s].step = "insert" /\ c \in save[s].left
          /\ save' = [Guild!Disturbed(s) EXCEPT ![s].step = Guild!After(rest), ![s].left = rest]
      BY <2>4 DEF Guild!Inserts
    <3>3. \A i \in Saves : i # s => save'[i] = [save[i] EXCEPT !.alone = FALSE]
      BY <3>1, <3>2 DEF Guild!Disturbed
    <3>4. save'[s] = [save[s] EXCEPT !.step = Guild!After(rest), !.left = rest]
      BY <3>1, <3>2
    <3>5. rest \in SUBSET Channels /\ Guild!After(rest) \in {"done", "insert"}
      BY DEF Guild!After, Guild!Save
    <3>6. save'[s] \in Guild!Save
      BY <3>4, <3>5 DEF Guild!Save
    <3>. HIDE DEF rest
    <3>7. save' \in [Saves -> Guild!Save]
      BY <3>1, <3>2, <3>6
    <3>. USE DEF rest
    <3>8. save[s].alone => covered' = save[s].list \ rest /\ rest \subseteq save[s].list
      BY <3>2
    <3>9. \A i \in Saves : i # s => ~save'[i].alone /\ save'[i].step = save[i].step
                                    /\ save'[i].left = save[i].left /\ save'[i].list = save[i].list
      <4>1. TAKE i \in Saves
      <4>2. HAVE i # s
      <4>3. save'[i] = [save[i] EXCEPT !.alone = FALSE] /\ save[i] \in Guild!Save
        BY <2>0, <3>3, <4>2
      <4>. QED
        BY <4>3 DEF Guild!Save
    <3>10. /\ save'[s].step = Guild!After(rest) /\ save'[s].left = rest
           /\ save'[s].list = save[s].list /\ save'[s].alone = save[s].alone
      BY <3>4 DEF Guild!Save
    <3>11. Guild!AloneSoFar'
      BY <3>5, <3>8, <3>9, <3>10
    <3>12. Guild!AloneIsExact'
      BY <3>8, <3>9, <3>10 DEF Guild!After
    <3>. QED
      BY <3>2, <3>7, <3>11, <3>12
  <2>5. ASSUME NEW c \in Channels, Guild!Adds(c) PROVE Held
    <3>1. covered' = covered \cup {c} /\ save' = [i \in Saves |-> [save[i] EXCEPT !.alone = FALSE]]
      BY <2>5 DEF Guild!Adds
    <3>2. \A i \in Saves : ~save'[i].alone /\ save'[i].step = save[i].step
                           /\ save'[i].left = save[i].left /\ save'[i].list = save[i].list
      BY <3>1 DEF Guild!Save
    <3>3. save' \in [Saves -> Guild!Save]
      BY <2>0, <3>1
    <3>. QED
      BY <3>1, <3>2, <3>3
  <2>. QED
    BY <2>1, <2>2, <2>3, <2>4, <2>5 DEF Guild!CoverStep
<1>. QED
  BY <1>1, <1>2, <1>3 DEF Guild!welcomeVars, Guild!policyVars

LEMMA SettingsInductive == Guild!SettingsInv /\ [Guild!Next]_(Guild!vars) => Guild!SettingsInv'
<1>. SUFFICES ASSUME Guild!SettingsInv, [Guild!Next]_(Guild!vars) PROVE Guild!SettingsInv'
  OBVIOUS
<1>1. CASE Guild!Next
  BY <1>1, WelcomeStepKeeps, PolicyStepKeeps, CoverStepKeeps DEF Guild!Next
<1>2. CASE UNCHANGED Guild!vars
  BY <1>2 DEF Guild!vars, Guild!SettingsInv, Guild!TypeOK, Guild!GivenOwn, Guild!FreshIsCurrent,
         Guild!AloneSoFar, Guild!AloneIsExact
<1>. QED
  BY <1>1, <1>2

LEMMA SettingsHold == Guild!Spec => []Guild!SettingsInv
<1>. QED
  BY SettingsInit, SettingsInductive, PTL DEF Guild!Spec

\* However many people save the covered channels at a time and whatever fails: a save that ran alone
\* has covered the channels of its list and no others.
THEOREM CoverageIsExact == Guild!Spec => []Guild!AloneIsExact
<1>. QED
  BY SettingsHold, PTL DEF Guild!SettingsInv

\* The forms of the bot keep what others saved of the welcome message, for any number of forms and
\* pages open at a time: create_or_update writes the fields it was given, and inserts nothing over a
\* row that came after its read.
THEOREM FormsAreApart == Guild!Spec => Guild!FormsKeepTheRest
<1>1. Guild!SettingsInv /\ [Guild!Next]_(Guild!vars) =>
          [\A f \in Forms : Guild!FormStep(f) /\ welcome.there =>
              /\ welcome'.there /\ welcome'.is_enabled = welcome.is_enabled
              /\ \A x \in Guild!Fields \ Guild!Own[form[f].kind] : welcome'.fields[x] = welcome.fields[x]]_(Guild!vars)
  <2>. SUFFICES ASSUME Guild!SettingsInv, NEW f \in Forms, Guild!FormStep(f), welcome.there
                PROVE  /\ welcome'.there /\ welcome'.is_enabled = welcome.is_enabled
                       /\ \A x \in Guild!Fields \ Guild!Own[form[f].kind] : welcome'.fields[x] = welcome.fields[x]
    OBVIOUS
  <2>1. CASE Guild!Update(f)
    <3>1. \A x \in Guild!Fields \ Guild!Own[form[f].kind] : form[f].given[x] = Nil
      BY <2>1 DEF Guild!Update, Guild!SettingsInv, Guild!GivenOwn
    <3>2. welcome' = [welcome EXCEPT !.fields = Guild!Given(f)] /\ welcome \in Guild!Row
      BY <2>1 DEF Guild!Update, Guild!SettingsInv, Guild!TypeOK
    <3>. QED
      BY <3>1, <3>2 DEF Guild!Given, Guild!Row
  <2>2. CASE ~Guild!Update(f)
    BY <2>2 DEF Guild!FormStep, Guild!Open, Guild!Submit, Guild!Look, Guild!Insert, Guild!Dropped
  <2>. QED
    BY <2>1, <2>2
<1>. QED
  BY <1>1, SettingsHold, PTL DEF Guild!Spec, Guild!FormsKeepTheRest

\* A command of /ai-policy that nobody overtook changes one section, for any document.
THEOREM EditsAreApart == Guild!Spec => Guild!EditsKeepTheRest
<1>1. Guild!SettingsInv /\ [Guild!Next]_(Guild!vars) =>
          [\A e \in Editors : Guild!Writes(e) /\ edit[e].fresh =>
              \A x \in Sections \ {edit[e].section} : policy'[x] = policy[x]]_(Guild!vars)
  BY DEF Guild!SettingsInv, Guild!FreshIsCurrent, Guild!Writes
<1>. QED
  BY <1>1, SettingsHold, PTL DEF Guild!Spec, Guild!EditsKeepTheRest
=============================================================================

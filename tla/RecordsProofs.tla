---------------------------- MODULE RecordsProofs ----------------------------
(***************************************************************************)
(* Theorems about the records for every value of the constants: the        *)
(* murojaats (Applications), one at a time and interleaved; conversations  *)
(* (Chat), attendance (Attendance) and positions (Locations) in the        *)
(* sections after them; and what MCRecords puts side by side, at the end.  *)
(***************************************************************************)
EXTENDS MCRecords, FiniteSetTheorems, TLAPS, WellFoundedInduction

USE ConstantsAssumption DEF Statuses, Open, Closed, NoStatus

\* A task changed only in its stage, note or employee is a task.
LEMMA RequestIsTask ==
    ASSUME NEW a \in Apps, NEW to \in Statuses \cup {NoStatus}, NEW n \in Notes,
           NEW e \in Emps \cup {Null, Keep}
    PROVE  Request(a, to, n, e) \in Task
BY DEF Request, Task, Reads, Writes, Notes

\* What a handler does when it takes up a request with task t.
TakeUp(p, t) ==
    \/ StatusRead(p, t) /\ t.to \in Statuses
    \/ AssignRead(p, t) \/ AdminPatch(p, t)
    \/ ReplyRead(p, t) \/ RateRead(p, t) \/ ReopenRead(p, t)

\* Taking up a request or going on with a nested one only moves the task.
LEMMA ArriveTakesUp ==
    ASSUME NEW p \in Handlers, Arrive(p)
    PROVE  \E t \in Task : TakeUp(p, t) /\ t.pc = "status" /\ t.seen = "NEW"
<1>1. ASSUME NEW a \in Apps, NEW s \in Statuses, NEW n \in Notes, NEW e \in Emps \cup {Keep},
             StatusRead(p, Request(a, s, n, e))
      PROVE  \E t \in Task : TakeUp(p, t) /\ t.pc = "status" /\ t.seen = "NEW"
  BY <1>1, RequestIsTask DEF TakeUp, Request
<1>2. ASSUME NEW a \in Apps, NEW e \in Emps \cup {Keep},
             AssignRead(p, Request(a, NoStatus, "absent", e))
      PROVE  \E t \in Task : TakeUp(p, t) /\ t.pc = "status" /\ t.seen = "NEW"
  <2>1. Request(a, NoStatus, "absent", e) \in Task
    BY RequestIsTask DEF Notes
  <2> QED BY <1>2, <2>1 DEF TakeUp, Request
<1>3. ASSUME NEW a \in Apps, NEW s \in Statuses \cup {NoStatus}, NEW n \in Notes,
             NEW e \in Emps \cup {Null, Keep}, AdminPatch(p, Request(a, s, n, e))
      PROVE  \E t \in Task : TakeUp(p, t) /\ t.pc = "status" /\ t.seen = "NEW"
  BY <1>3, RequestIsTask DEF TakeUp, Request
<1>4. ASSUME NEW a \in Apps, NEW s \in {"RESOLVED", NoStatus},
             ReplyRead(p, Request(a, s, "absent", Keep))
      PROVE  \E t \in Task : TakeUp(p, t) /\ t.pc = "status" /\ t.seen = "NEW"
  <2>1. Request(a, s, "absent", Keep) \in Task
    BY RequestIsTask DEF Notes
  <2> QED BY <1>4, <2>1 DEF TakeUp, Request
<1>5. ASSUME NEW a \in Apps,
             RateRead(p, Request(a, NoStatus, "absent", Keep))
             \/ ReopenRead(p, Request(a, NoStatus, "absent", Keep))
      PROVE  \E t \in Task : TakeUp(p, t) /\ t.pc = "status" /\ t.seen = "NEW"
  <2>1. Request(a, NoStatus, "absent", Keep) \in Task
    BY RequestIsTask DEF Notes
  <2> QED BY <1>5, <2>1 DEF TakeUp, Request
<1> QED
  BY <1>1, <1>2, <1>3, <1>4, <1>5 DEF Arrive, Patch, Converse

\* A task on its way to a status write has a status to write.
ToStatus == {"status", "status:count", "status:commit", "current"}
Targeted == \A p \in Handlers : task[p].pc \in ToStatus => task[p].to \in Statuses

\* A read keeps every row and leaves the handler idle or with a typed task
\* about the same murojaat, which is in the table.
LEMMA ReadKeepsRows ==
    ASSUME TypeOK, NEW p \in Handlers, NEW t \in Task, TakeUp(p, t)
    PROVE  /\ UNCHANGED <<life, row, answered, audit, alerts, staff, sweep>>
           /\ \A q \in Handlers : q # p => task'[q] = task[q]
           /\ task' \in [Handlers -> Task \cup {Idle}]
           /\ task'[p] # Idle => task'[p].app = t.app /\ life[t.app] = "filed"
           /\ task'[p].pc \in ToStatus => task'[p].to \in Statuses
<1> DEFINE Goes(n) == \/ n = Idle
                      \/ /\ n \in Task /\ n.app = t.app /\ life[t.app] = "filed"
                         /\ n.pc \in ToStatus => n.to \in Statuses
<1>1. ASSUME NEW n, Continue(p, n), Goes(n), SameRow
      PROVE  /\ UNCHANGED <<life, row, answered, audit, alerts, staff, sweep>>
             /\ \A q \in Handlers : q # p => task'[q] = task[q]
             /\ task' \in [Handlers -> Task \cup {Idle}]
             /\ task'[p] # Idle => task'[p].app = t.app /\ life[t.app] = "filed"
             /\ task'[p].pc \in ToStatus => task'[p].to \in Statuses
  BY <1>1 DEF Continue, SameRow, TypeOK, Idle, ToStatus
<1>2. Goes(Idle)
  OBVIOUS
<1>3. t.app \in Apps /\ row[t.app].status \in Statuses
  BY DEF Task, TypeOK, Row
<1>4. CASE StatusRead(p, t) /\ t.to \in Statuses
  <2> DEFINE pc == IF MustCount(row[t.app], t) THEN "status:count" ELSE "status:commit"
             n == [t EXCEPT !.seen = row[t.app].status, !.note = Posted(row[t.app], t),
                            !.pc = IF MustCount(row[t.app], t) THEN "status:count" ELSE "status:commit"]
  <2>1. pc \in Reads \cup Writes \cup {"status:count"} /\ Posted(row[t.app], t) \in Notes
    BY DEF Reads, Writes, Posted, Notes
  <2>2. n \in Task /\ n.app = t.app /\ n.to = t.to
    BY <2>1, <1>3 DEF Task, Reads, Writes, Notes
  <2>3. SameRow /\ (Return(p) \/ (life[t.app] = "filed" /\ Continue(p, n)))
    BY <1>4 DEF StatusRead
  <2> HIDE DEF n
  <2> QED BY <2>2, <2>3, <1>4, <1>1, <1>2 DEF Return
<1>5. CASE AssignRead(p, t)
  <2> DEFINE n == [t EXCEPT !.pc = "assign:commit", !.seen = row[t.app].status]
  <2>1. n \in Task /\ n.app = t.app /\ n.pc \notin ToStatus
    BY <1>3 DEF Task, Reads, Writes, Notes, ToStatus
  <2>2. SameRow /\ (Return(p) \/ (life[t.app] = "filed" /\ Continue(p, n)))
    BY <1>5 DEF AssignRead
  <2> HIDE DEF n
  <2> QED BY <2>1, <2>2, <1>1, <1>2 DEF Return
<1>6. CASE AdminPatch(p, t)
  <2> DEFINE n1 == [t EXCEPT !.pc = "assign"]
             n2 == [t EXCEPT !.pc = "unassign:commit"]
             n3 == [t EXCEPT !.pc = "current", !.emp = Keep, !.seen = "NEW"]
  <2>1. n1 \in Task /\ n1.app = t.app /\ n2 \in Task /\ n2.app = t.app
        /\ n3 \in Task /\ n3.app = t.app /\ n3.to = t.to
        /\ n1.pc \notin ToStatus /\ n2.pc \notin ToStatus
    BY DEF Task, Reads, Writes, Notes, ToStatus
  <2>2. /\ SameRow
        /\ \/ Return(p)
           \/ life[t.app] = "filed"
              /\ \/ Continue(p, n1) \/ Continue(p, n2) \/ Continue(p, Idle)
                 \/ Continue(p, n3) /\ t.to \in Statuses
    BY <1>6 DEF AdminPatch, AfterAssign, Task
  <2> HIDE DEF n1, n2, n3
  <2> QED BY <2>1, <2>2, <1>1, <1>2 DEF Return
<1>7. CASE ReplyRead(p, t)
  <2> DEFINE n == [t EXCEPT !.pc = "reply:commit", !.seen = row[t.app].status]
  <2>1. n \in Task /\ n.app = t.app /\ n.pc \notin ToStatus
    BY <1>3 DEF Task, Reads, Writes, Notes, ToStatus
  <2>2. SameRow /\ (Return(p) \/ (life[t.app] = "filed" /\ Continue(p, n)))
    BY <1>7 DEF ReplyRead
  <2> HIDE DEF n
  <2> QED BY <2>1, <2>2, <1>1, <1>2 DEF Return
<1>8. CASE RateRead(p, t)
  <2> DEFINE n == [t EXCEPT !.pc = "rate:commit", !.seen = "RESOLVED"]
  <2>1. n \in Task /\ n.app = t.app /\ n.pc \notin ToStatus
    BY <1>3 DEF Task, Reads, Writes, Notes, ToStatus
  <2>2. SameRow /\ (Return(p) \/ (life[t.app] = "filed" /\ Continue(p, n)))
    BY <1>8 DEF RateRead
  <2> HIDE DEF n
  <2> QED BY <2>1, <2>2, <1>1, <1>2 DEF Return
<1>9. CASE ReopenRead(p, t)
  <2> DEFINE n == [t EXCEPT !.pc = "reopen:commit", !.seen = "RESOLVED"]
  <2>1. n \in Task /\ n.app = t.app /\ n.pc \notin ToStatus
    BY <1>3 DEF Task, Reads, Writes, Notes, ToStatus
  <2>2. SameRow /\ (Return(p) \/ (life[t.app] = "filed" /\ Continue(p, n)))
    BY <1>9 DEF ReopenRead
  <2> HIDE DEF n
  <2> QED BY <2>1, <2>2, <1>1, <1>2 DEF Return
<1> QED BY <1>4, <1>5, <1>6, <1>7, <1>8, <1>9 DEF TakeUp

\* The kinds of step there are, with both ways of taking up a task made one.
LEMMA StepCases ==
    ASSUME TypeOK, Targeted, Next
    PROVE  \/ \E p \in Handlers, t \in Task : TakeUp(p, t)
           \/ \E p \in Handlers : StatusCount(p) \/ AdminCurrent(p)
           \/ \E p \in Handlers : StatusCommit(p)
           \/ \E p \in Handlers : AssignCommit(p)
           \/ \E p \in Handlers : UnassignCommit(p)
           \/ \E p \in Handlers : ReplyCommit(p)
           \/ \E p \in Handlers : RateCommit(p)
           \/ \E p \in Handlers : ReopenCommit(p)
           \/ \E p \in Handlers, a \in Apps : File(p, a)
           \/ \E p \in Handlers, a \in Apps : StaffMessage(p, a)
           \/ \E p \in Handlers, a \in Apps : Remove(p, a)
           \/ \E p \in Handlers, e \in Emps : Archive(p, e)
           \/ \E p \in Handlers, e \in Emps : Restore(p, e)
           \/ \E p \in Handlers, e \in Emps : Purge(p, e)
           \/ SweepRead
           \/ Restart
           \/ \E a \in Apps : SweepUpdate(a)
           \/ \E a \in Apps : DeadlinePasses(a)
           \/ \E a \in Apps : WindowPasses(a)
<1>1. ASSUME NEW p \in Handlers, Arrive(p)
      PROVE  \E q \in Handlers, t \in Task : TakeUp(q, t)
  BY <1>1, ArriveTakesUp
<1>2. ASSUME NEW p \in Handlers,
             \/ At(p, "status") /\ StatusRead(p, task[p])
             \/ At(p, "assign") /\ AssignRead(p, task[p])
      PROVE  \E q \in Handlers, t \in Task : TakeUp(q, t)
  <2>1. task[p] \in Task
    BY <1>2 DEF At, TypeOK, Idle
  <2> QED BY <1>2, <2>1 DEF TakeUp, At, Targeted, ToStatus
<1> QED BY <1>1, <1>2 DEF Next, Proceed, Sweep
-----------------------------------------------------------------------------
\* The rows that updateStatus and reopen write are rows.
LEMMA StatusRowFields ==
    ASSUME NEW r \in Row, NEW t \in Task, t.to \in Statuses
    PROVE  /\ StatusRow(r, t) \in Row
           /\ StatusRow(r, t).status = t.to
           /\ StatusRow(r, t).reopens = r.reopens
           /\ StatusRow(r, t).escalated =
                 IF t.seen = "RESOLVED" /\ t.to = "IN_PROGRESS" THEN FALSE ELSE r.escalated
<1> DEFINE reset == t.seen = "RESOLVED" /\ t.to = "IN_PROGRESS"
           stamp == IF t.to # t.seen /\ t.to = "RESOLVED" THEN "recent"
                    ELSE IF t.to # t.seen /\ t.to = "IN_PROGRESS" THEN "unset" ELSE r.resolved
           late == IF reset THEN FALSE ELSE r.overdue
           told == IF reset THEN FALSE ELSE r.escalated
           rated == IF reset THEN FALSE ELSE r.rated
<1>1. stamp \in Stamps /\ late \in BOOLEAN /\ told \in BOOLEAN /\ rated \in BOOLEAN
  BY DEF Row, Stamps
<1>2. Assigned(r, t) \in Emps \cup {Null}
  BY DEF Row, Task, Assigned
<1>3. StatusRow(r, t) = [r EXCEPT !.status = t.to, !.assignee = Assigned(r, t),
         !.resolved = stamp, !.overdue = late, !.escalated = told, !.rated = rated]
  BY DEF StatusRow
<1> HIDE DEF stamp, late, told, rated
<1>4. /\ StatusRow(r, t) \in Row /\ StatusRow(r, t).status = t.to
      /\ StatusRow(r, t).reopens = r.reopens /\ StatusRow(r, t).escalated = told
  BY <1>1, <1>2, <1>3 DEF Row
<1> QED BY <1>4 DEF told

LEMMA ReopenedRowFields ==
    ASSUME NEW r \in Row
    PROVE  /\ ReopenedRow(r) \in Row
           /\ ReopenedRow(r).status = "IN_PROGRESS"
           /\ ReopenedRow(r).reopens = r.reopens + 1
           /\ ReopenedRow(r).escalated = FALSE
<1> DEFINE n == r.reopens + 1
<1>1. r.reopens \in Nat /\ n \in Nat
  BY DEF Row
<1>2. ReopenedRow(r) = [r EXCEPT !.status = "IN_PROGRESS", !.resolved = "unset",
         !.rated = FALSE, !.reopens = n, !.overdue = FALSE, !.escalated = FALSE]
  BY DEF ReopenedRow
<1>3. n = r.reopens + 1
  OBVIOUS
<1> HIDE DEF n
<1> QED BY <1>1, <1>2, <1>3 DEF Row, Stamps

LEMMA AssignedRowType ==
    ASSUME NEW r \in Row, NEW t \in Task
    PROVE  AssignedRow(r, t) \in Row
<1>1. Assigned(r, t) \in Emps \cup {Null}
  BY DEF Row, Task, Assigned
<1> QED BY <1>1 DEF Row, AssignedRow

LEMMA RepliedRowType ==
    ASSUME NEW r \in Row, NEW t \in Task
    PROVE  RepliedRow(r, t) \in Row
<1>1. Replied(r.status, t) \in Statuses
  BY DEF Row, Replied
<1> QED BY <1>1 DEF Row, Stamps, RepliedRow

LEMMA ReleasedRowType ==
    ASSUME NEW r \in Row, NEW e
    PROVE  ReleasedRow(r, e) \in Row
BY DEF Row, ReleasedRow

\* One column of a row set: unassigned, rated, escalated, overdue, out of the window.
LEMMA OneColumn ==
    ASSUME NEW r \in Row
    PROVE  /\ [r EXCEPT !.assignee = Null] \in Row
           /\ [r EXCEPT !.rated = TRUE] \in Row
           /\ EscalatedRow(r) \in Row
           /\ [r EXCEPT !.overdue = TRUE] \in Row
           /\ [r EXCEPT !.resolved = "old"] \in Row
BY DEF Row, Stamps, EscalatedRow
-----------------------------------------------------------------------------
\* A handler that returns leaves the others alone.
LEMMA ReturnTypes ==
    ASSUME TypeOK, Targeted, NEW p \in Handlers, Return(p)
    PROVE  task' \in [Handlers -> Task \cup {Idle}] /\ Targeted'
BY DEF TypeOK, Targeted, ToStatus, Return, Continue, Idle

LEMMA TypesInitially == Init => TypeOK /\ Targeted
BY DEF Init, TypeOK, Targeted, ToStatus, Row, NewRow, Stamps, Idle

LEMMA TypesKept ==
    ASSUME TypeOK, Targeted, [Next]_vars
    PROVE  TypeOK' /\ Targeted'
<1>1. ASSUME NEW p \in Handlers, NEW t \in Task, TakeUp(p, t)
      PROVE  TypeOK' /\ Targeted'
  BY <1>1, ReadKeepsRows DEF TypeOK, Targeted
<1>2. ASSUME NEW p \in Handlers, StatusCount(p)
      PROVE  TypeOK' /\ Targeted'
  <2>1. task[p] \in Task /\ task[p].pc \in ToStatus
    BY <1>2 DEF StatusCount, At, TypeOK, Idle, ToStatus
  <2>2. [task[p] EXCEPT !.pc = "status:commit"] \in Task
        /\ [task[p] EXCEPT !.pc = "status:commit"].to = task[p].to
    BY <2>1 DEF Task, Reads, Writes
  <2>3. CASE Return(p)
    BY <1>2, <2>3, ReturnTypes DEF StatusCount, SameRow, TypeOK
  <2>4. CASE Continue(p, [task[p] EXCEPT !.pc = "status:commit"])
    <3>1. task' \in [Handlers -> Task \cup {Idle}] /\ Targeted'
      BY <2>1, <2>2, <2>4 DEF Continue, TypeOK, Targeted
    <3> QED BY <1>2, <3>1 DEF StatusCount, SameRow, TypeOK
  <2> QED BY <1>2, <2>3, <2>4 DEF StatusCount
<1>3. ASSUME NEW p \in Handlers, AdminCurrent(p)
      PROVE  TypeOK' /\ Targeted'
  <2>1. task[p] \in Task /\ task[p].pc \in ToStatus
    BY <1>3 DEF AdminCurrent, At, TypeOK, Idle, ToStatus
  <2>2. [task[p] EXCEPT !.pc = "status"] \in Task
        /\ [task[p] EXCEPT !.pc = "status"].to = task[p].to
    BY <2>1 DEF Task, Reads, Writes
  <2>3. CASE Return(p)
    BY <1>3, <2>3, ReturnTypes DEF AdminCurrent, SameRow, TypeOK
  <2>4. CASE Continue(p, [task[p] EXCEPT !.pc = "status"])
    <3>1. task' \in [Handlers -> Task \cup {Idle}] /\ Targeted'
      BY <2>1, <2>2, <2>4 DEF Continue, TypeOK, Targeted
    <3> QED BY <1>3, <3>1 DEF AdminCurrent, SameRow, TypeOK
  <2> QED BY <1>3, <2>3, <2>4 DEF AdminCurrent
<1>4. ASSUME NEW p \in Handlers, StatusCommit(p)
      PROVE  TypeOK' /\ Targeted'
  <2>1. task[p] \in Task /\ task[p].to \in Statuses /\ task[p].app \in Apps
    BY <1>4 DEF StatusCommit, At, TypeOK, Idle, Targeted, ToStatus, Task
  <2>2. StatusRow(row[task[p].app], task[p]) \in Row
    BY <2>1, StatusRowFields DEF TypeOK
  <2>3. Return(p)
    BY <1>4 DEF StatusCommit
  <2>4. row' \in [Apps -> Row]
    BY <1>4, <2>1, <2>2 DEF StatusCommit, TypeOK
  <2>5. answered' \in [Apps -> BOOLEAN]
    BY <1>4, <2>1 DEF StatusCommit, TypeOK
  <2>6. audit' \in [Apps -> Statuses]
    BY <1>4, <2>1 DEF StatusCommit, TypeOK
  <2>7. alerts' \in [Apps -> Nat]
    BY <1>4, <2>1 DEF StatusCommit, TypeOK
  <2> QED BY <1>4, <2>3, <2>4, <2>5, <2>6, <2>7, ReturnTypes DEF StatusCommit, TypeOK
<1>5. ASSUME NEW p \in Handlers, AssignCommit(p)
      PROVE  TypeOK' /\ Targeted'
  <2> DEFINE t == task[p]
  <2>1. t \in Task /\ t.app \in Apps
    BY <1>5 DEF AssignCommit, At, TypeOK, Idle, Task
  <2>2. AfterAssign(t) \in Task \cup {Idle}
        /\ (AfterAssign(t).pc \in ToStatus => AfterAssign(t).to \in Statuses)
    BY <2>1 DEF AfterAssign, Task, Reads, Idle, ToStatus
  <2>3. task' \in [Handlers -> Task \cup {Idle}] /\ Targeted'
    <3>1. CASE Return(p)
      BY <3>1, ReturnTypes
    <3>2. CASE Continue(p, AfterAssign(t))
      BY <3>2, <2>2 DEF Continue, TypeOK, Targeted
    <3> QED BY <1>5, <3>1, <3>2 DEF AssignCommit
  <2>4. row' \in [Apps -> Row] /\ audit' \in [Apps -> Statuses]
    <3>0. row[t.app] \in Row
      BY <2>1 DEF TypeOK
    <3>1. AssignedRow(row[t.app], t) \in Row
      BY <2>1, <3>0, AssignedRowType
    <3> QED BY <1>5, <2>1, <3>1 DEF AssignCommit, TypeOK
  <2> QED BY <1>5, <2>3, <2>4 DEF AssignCommit, TypeOK
<1>6. ASSUME NEW p \in Handlers, UnassignCommit(p)
      PROVE  TypeOK' /\ Targeted'
  <2> DEFINE t == task[p]
  <2>1. t \in Task /\ t.app \in Apps
    BY <1>6 DEF UnassignCommit, At, TypeOK, Idle, Task
  <2>2. AfterAssign(t) \in Task \cup {Idle}
        /\ (AfterAssign(t).pc \in ToStatus => AfterAssign(t).to \in Statuses)
    BY <2>1 DEF AfterAssign, Task, Reads, Idle, ToStatus
  <2>3. task' \in [Handlers -> Task \cup {Idle}] /\ Targeted'
    <3>1. CASE Return(p)
      BY <3>1, ReturnTypes
    <3>2. CASE Continue(p, AfterAssign(t))
      BY <3>2, <2>2 DEF Continue, TypeOK, Targeted
    <3> QED BY <1>6, <3>1, <3>2 DEF UnassignCommit
  <2>4. row' \in [Apps -> Row]
    <3>0. row[t.app] \in Row
      BY <2>1 DEF TypeOK
    <3>1. [row[t.app] EXCEPT !.assignee = Null] \in Row
      BY <3>0, OneColumn
    <3> QED BY <1>6, <2>1, <3>1 DEF UnassignCommit, TypeOK
  <2> QED BY <1>6, <2>3, <2>4 DEF UnassignCommit, TypeOK
<1>7. ASSUME NEW p \in Handlers, ReplyCommit(p)
      PROVE  TypeOK' /\ Targeted'
  <2>1. task[p] \in Task /\ task[p].app \in Apps /\ Return(p)
    BY <1>7 DEF ReplyCommit, At, TypeOK, Idle, Task
  <2>0. row[task[p].app] \in Row
    BY <2>1 DEF TypeOK
  <2>2. RepliedRow(row[task[p].app], task[p]) \in Row
    BY <2>0, <2>1, RepliedRowType
  <2>3. row' \in [Apps -> Row]
    BY <1>7, <2>1, <2>2 DEF ReplyCommit, TypeOK
  <2>4. answered' \in [Apps -> BOOLEAN] /\ audit' \in [Apps -> Statuses]
    BY <1>7, <2>1 DEF ReplyCommit, Replied, TypeOK
  <2> QED BY <1>7, <2>1, <2>3, <2>4, ReturnTypes DEF ReplyCommit, TypeOK
<1>8. ASSUME NEW p \in Handlers, RateCommit(p)
      PROVE  TypeOK' /\ Targeted'
  <2>1. task[p].app \in Apps /\ Return(p)
    BY <1>8 DEF RateCommit, At, TypeOK, Idle, Task
  <2>2. row' \in [Apps -> Row]
    <3>0. row[task[p].app] \in Row
      BY <2>1 DEF TypeOK
    <3>1. [row[task[p].app] EXCEPT !.rated = TRUE] \in Row
      BY <3>0, OneColumn
    <3> QED BY <1>8, <2>1, <3>1 DEF RateCommit, TypeOK
  <2> QED BY <1>8, <2>1, <2>2, ReturnTypes DEF RateCommit, TypeOK
<1>9. ASSUME NEW p \in Handlers, ReopenCommit(p)
      PROVE  TypeOK' /\ Targeted'
  <2>1. task[p].app \in Apps /\ Return(p)
    BY <1>9 DEF ReopenCommit, At, TypeOK, Idle, Task
  <2>2. ReopenedRow(row[task[p].app]) \in Row
    BY <2>1, ReopenedRowFields DEF TypeOK
  <2> QED BY <1>9, <2>1, <2>2, ReturnTypes DEF ReopenCommit, TypeOK
<1>10. ASSUME NEW p \in Handlers, NEW a \in Apps, File(p, a) \/ StaffMessage(p, a)
       PROVE  TypeOK' /\ Targeted'
  BY <1>10 DEF File, StaffMessage, TypeOK, Targeted
<1>11. ASSUME NEW p \in Handlers, NEW a \in Apps, Remove(p, a)
       PROVE  TypeOK' /\ Targeted'
  <2>1. NewRow \in Row
    BY DEF NewRow, Row, Stamps
  <2> QED BY <1>11, <2>1 DEF Remove, TypeOK, Targeted
<1>12. ASSUME NEW p \in Handlers, NEW e \in Emps, Archive(p, e) \/ Restore(p, e) \/ Purge(p, e)
       PROVE  TypeOK' /\ Targeted'
  <2>1. \A a \in Apps : /\ ReleasedRow(row[a], e) \in Row
                        /\ [row[a] EXCEPT !.assignee = Null] \in Row
    <3>1. ASSUME NEW a \in Apps PROVE row[a] \in Row
      BY DEF TypeOK
    <3> QED BY <3>1, ReleasedRowType, OneColumn
  <2>2. row' \in [Apps -> Row]
    <3>1. CASE Archive(p, e)
      BY <3>1, <2>1 DEF Archive, TypeOK
    <3>2. CASE Restore(p, e)
      BY <3>2 DEF Restore, TypeOK
    <3>3. CASE Purge(p, e)
      BY <3>3, <2>1 DEF Purge, TypeOK
    <3> QED BY <1>12, <3>1, <3>2, <3>3
  <2> QED BY <1>12, <2>2 DEF Archive, Restore, Purge, TypeOK, Targeted
<1>13. CASE SweepRead
  BY <1>13 DEF SweepRead, TypeOK, Targeted
<1>14. ASSUME NEW a \in Apps, SweepUpdate(a) \/ DeadlinePasses(a) \/ WindowPasses(a)
       PROVE  TypeOK' /\ Targeted'
  <2>1. /\ EscalatedRow(row[a]) \in Row
        /\ [row[a] EXCEPT !.overdue = TRUE] \in Row
        /\ [row[a] EXCEPT !.resolved = "old"] \in Row
    <3>1. row[a] \in Row
      BY DEF TypeOK
    <3> QED BY <3>1, OneColumn
  <2>2. row' \in [Apps -> Row]
    BY <1>14, <2>1 DEF SweepUpdate, DeadlinePasses, WindowPasses, TypeOK
  <2> QED BY <1>14, <2>2 DEF SweepUpdate, DeadlinePasses, WindowPasses, TypeOK, Targeted
<1>15. CASE Restart
  <2>1. row' \in [Apps -> Row]
    <3>1. \A a \in Apps : EscalatedRow(row[a]) \in Row
      <4>1. ASSUME NEW a \in Apps PROVE row[a] \in Row
        BY DEF TypeOK
      <4> QED BY <4>1, OneColumn
    <3> QED BY <1>15, <3>1 DEF Restart, TypeOK
  <2> QED BY <1>15, <2>1 DEF Restart, TypeOK, Targeted, Idle, ToStatus
<1>16. CASE UNCHANGED vars
  BY <1>16 DEF vars, TypeOK, Targeted
<1> QED
  BY <1>1, <1>2, <1>3, <1>4, <1>5, <1>6, <1>7, <1>8, <1>9, <1>10, <1>11, <1>12, <1>13, <1>14,
     <1>15, <1>16, StepCases

\* Every variable keeps its type: no write of any handler, of the sweep or of
\* the employee archive leaves the columns' domains.
THEOREM TypeCorrect == Spec => []TypeOK
<1>1. Init => TypeOK /\ Targeted
  BY TypesInitially
<1>2. TypeOK /\ Targeted /\ [Next]_vars => TypeOK' /\ Targeted'
  BY TypesKept
<1> QED BY <1>1, <1>2, PTL DEF Spec
-----------------------------------------------------------------------------
(***************************************************************************)
(* The other columns of the rows that are written.                         *)
(***************************************************************************)
LEMMA AssignedRowFields ==
    ASSUME NEW r \in Row, NEW t \in Task
    PROVE  /\ AssignedRow(r, t).status \in {r.status, "IN_PROGRESS"}
           /\ AssignedRow(r, t).reopens = r.reopens
           /\ AssignedRow(r, t).escalated = r.escalated
BY DEF Row, AssignedRow

LEMMA RepliedRowFields ==
    ASSUME NEW r \in Row, NEW t \in Task
    PROVE  /\ RepliedRow(r, t).reopens = r.reopens
           /\ RepliedRow(r, t).escalated = r.escalated
BY DEF Row, RepliedRow

LEMMA ReleasedRowFields ==
    ASSUME NEW r \in Row, NEW e
    PROVE  /\ ReleasedRow(r, e).status \in {r.status, "NEW"}
           /\ ReleasedRow(r, e).reopens = r.reopens
           /\ ReleasedRow(r, e).escalated = r.escalated
BY DEF Row, ReleasedRow
-----------------------------------------------------------------------------
(***************************************************************************)
(* ClosedHasAnswer is not inductive.  The commit of updateStatus trusts    *)
(* what its reads found, so the invariant says what every task about to    *)
(* commit still has in hand, and that no handler is busy with a murojaat   *)
(* that has not been filed.                                                *)
(***************************************************************************)

\* A closing task has an answer on the thread, or a note it will put there.
Backed(t) ==
    t.pc = "status:commit" /\ t.to \in Closed /\ life[t.app] = "filed"
    => answered[t.app] \/ (t.to # t.seen /\ t.note # "absent")

Known(t) == t # Idle => life[t.app] # "unfiled"

\* Rows that are not in the table are as a new one.
Blank == \A a \in Apps : life[a] # "filed" => row[a].status = "NEW" /\ ~row[a].escalated

AnswerInv ==
    /\ ClosedHasAnswer
    /\ \A p \in Handlers : Backed(task[p]) /\ Known(task[p])
    /\ Blank
\* No murojaat is taken from the table's past into it, and answers stay.
AnswersStay ==
    \A a \in Apps :
        /\ life[a] # "unfiled" => life'[a] # "unfiled"
        /\ life'[a] = "filed" /\ life[a] # "unfiled"
           => life[a] = "filed" /\ (answered[a] => answered'[a])

\* What the tasks have in hand before the step they have after it.
LEMMA TasksKept ==
    ASSUME TypeOK', AnswersStay, \A q \in Handlers : Backed(task'[q]) /\ Known(task'[q])
    PROVE  (\A q \in Handlers : Backed(task[q]) /\ Known(task[q]))'
<1>1. \A q \in Handlers : task'[q] # Idle => task'[q].app \in Apps
  BY DEF TypeOK, Task
<1>2. Idle.pc = "idle"
  BY DEF Idle
<1> QED BY <1>1, <1>2 DEF AnswersStay, Backed, Known

\* Most steps leave a task as it is or finish it.
LEMMA TasksDone ==
    ASSUME AnswerInv, NEW p \in Handlers, Return(p), TypeOK
    PROVE  \A q \in Handlers : Backed(task'[q]) /\ Known(task'[q])
BY DEF AnswerInv, Return, Continue, TypeOK, Backed, Known, Idle

\* What a handler decides from its reads is backed by what it read.
LEMMA ReadIsBacked ==
    ASSUME TypeOK, AnswerInv, NEW p \in Handlers, NEW t \in Task, TakeUp(p, t)
    PROVE  Backed(task'[p]) /\ Known(task'[p])
<1>1. Known(task'[p])
  BY ReadKeepsRows DEF Known
<1>2. ASSUME NEW n, Continue(p, n) PROVE task'[p] = n
  BY <1>2 DEF Continue, TypeOK
<1>3. t.app \in Apps
  BY DEF Task
<1>4. CASE StatusRead(p, t) /\ t.to \in Statuses
  <2> DEFINE r == row[t.app]
             n == [t EXCEPT !.seen = r.status, !.note = Posted(r, t),
                            !.pc = IF MustCount(r, t) THEN "status:count" ELSE "status:commit"]
  <2>1. CASE Return(p)
    BY <2>1, <1>1, <1>2 DEF Return, Backed, Idle
  <2>2. CASE life[t.app] = "filed" /\ ~Refused(r, t) /\ Continue(p, n)
    <3>1. task'[p] = n
      BY <2>2, <1>2
    <3>2. /\ n.to = t.to /\ n.app = t.app /\ n.seen = r.status /\ n.note = Posted(r, t)
          /\ n.pc = "status:commit" => ~MustCount(r, t)
      BY DEF Task
    <3>3. t.to \in Closed /\ ~MustCount(r, t) /\ t.to # r.status => t.note = "full"
      BY <2>2 DEF MustCount, Refused
    <3>4. t.to = r.status /\ t.to \in Closed => answered[t.app]
      BY <2>2, <1>3 DEF AnswerInv, ClosedHasAnswer
    <3>5. t.to # r.status /\ t.note = "full" => Posted(r, t) # "absent"
      BY DEF Posted
    <3> HIDE DEF n
    <3> QED BY <3>1, <3>2, <3>3, <3>4, <3>5, <1>1 DEF Backed
  <2> QED BY <1>4, <2>1, <2>2 DEF StatusRead
<1>5. ASSUME NEW n, Continue(p, n), n.pc # "status:commit"
      PROVE  Backed(task'[p]) /\ Known(task'[p])
  BY <1>1, <1>2, <1>5 DEF Backed
<1>6. Idle.pc # "status:commit"
  BY DEF Idle
<1>7. CASE AssignRead(p, t)
  <2>1. [t EXCEPT !.pc = "assign:commit", !.seen = row[t.app].status].pc # "status:commit"
    BY DEF Task
  <2> QED BY <1>5, <1>6, <1>7, <2>1 DEF AssignRead, Return
<1>8. CASE ReplyRead(p, t)
  <2>1. [t EXCEPT !.pc = "reply:commit", !.seen = row[t.app].status].pc # "status:commit"
    BY DEF Task
  <2> QED BY <1>5, <1>6, <1>8, <2>1 DEF ReplyRead, Return
<1>9. CASE RateRead(p, t)
  <2>1. [t EXCEPT !.pc = "rate:commit", !.seen = "RESOLVED"].pc # "status:commit"
    BY DEF Task
  <2> QED BY <1>5, <1>6, <1>9, <2>1 DEF RateRead, Return
<1>10. CASE ReopenRead(p, t)
  <2>1. [t EXCEPT !.pc = "reopen:commit", !.seen = "RESOLVED"].pc # "status:commit"
    BY DEF Task
  <2> QED BY <1>5, <1>6, <1>10, <2>1 DEF ReopenRead, Return
<1>11. CASE AdminPatch(p, t)
  <2>1. /\ [t EXCEPT !.pc = "assign"].pc # "status:commit"
        /\ [t EXCEPT !.pc = "unassign:commit"].pc # "status:commit"
        /\ [t EXCEPT !.pc = "current", !.emp = Keep, !.seen = "NEW"].pc # "status:commit"
    BY DEF Task
  <2> QED BY <1>5, <1>6, <1>11, <2>1 DEF AdminPatch, AfterAssign, Return
<1> QED BY <1>4, <1>7, <1>8, <1>9, <1>10, <1>11 DEF TakeUp
\* What a step has to show: the tasks in hand, the closed rows, the blank ones.
LEMMA AnswerInvKept ==
    ASSUME TypeOK', AnswersStay, ClosedHasAnswer', Blank',
           \A q \in Handlers : Backed(task'[q]) /\ Known(task'[q])
    PROVE  AnswerInv'
BY TasksKept DEF AnswerInv

\* A step that moves nothing the invariant speaks of but tasks.
LEMMA OnlyTasks ==
    ASSUME TypeOK', AnswerInv, UNCHANGED <<life, row, answered>>,
           \A q \in Handlers : Backed(task'[q]) /\ Known(task'[q])
    PROVE  AnswerInv'
<1>1. AnswersStay /\ ClosedHasAnswer' /\ Blank'
  BY DEF AnswersStay, AnswerInv, ClosedHasAnswer, Blank
<1> QED BY <1>1, AnswerInvKept

\* A step that keeps the table's rows, their answers and every status, or moves
\* a status to one that is open, and leaves escalated flags off the table alone.
LEMMA OpensOnly ==
    ASSUME TypeOK', AnswerInv, UNCHANGED <<life, answered>>,
           \A a \in Apps : \/ row'[a] = row[a]
                           \/ life[a] = "filed" /\ row'[a].status \in {row[a].status} \cup Open,
           \A q \in Handlers : Backed(task'[q]) /\ Known(task'[q])
    PROVE  AnswerInv'
<1>1. AnswersStay
  BY DEF AnswersStay
<1>2. ClosedHasAnswer' /\ Blank'
  BY DEF AnswerInv, ClosedHasAnswer, Blank
<1> QED BY <1>1, <1>2, AnswerInvKept

LEMMA AnswerStep ==
    ASSUME TypeOK, Targeted, TypeOK', AnswerInv, [Next]_vars
    PROVE  AnswerInv'
<1> DEFINE InHand == \A q \in Handlers : Backed(task'[q]) /\ Known(task'[q])
<1>1. ASSUME NEW p \in Handlers, NEW t \in Task, TakeUp(p, t)
      PROVE  AnswerInv'
  <2>1. InHand
    BY <1>1, ReadKeepsRows, ReadIsBacked DEF AnswerInv
  <2> QED BY <1>1, <2>1, ReadKeepsRows, OnlyTasks
<1>2. ASSUME NEW p \in Handlers, StatusCount(p) \/ AdminCurrent(p)
      PROVE  AnswerInv'
  <2>1. task[p] \in Task /\ UNCHANGED <<life, row, answered>>
    BY <1>2 DEF StatusCount, AdminCurrent, At, TypeOK, Idle, SameRow
  <2>2. CASE Return(p)
    BY <2>1, <2>2, TasksDone, OnlyTasks
  <2>3. CASE answered[task[p].app] /\ Continue(p, [task[p] EXCEPT !.pc = "status:commit"])
    <3> DEFINE n == [task[p] EXCEPT !.pc = "status:commit"]
    <3>1. n.app = task[p].app /\ task[p] # Idle
      BY <1>2, <2>1 DEF Task, StatusCount, AdminCurrent, At, Idle
    <3>2. Backed(n) /\ Known(n)
      BY <2>3, <3>1 DEF Backed, Known, AnswerInv
    <3> HIDE DEF n
    <3>3. InHand
      BY <2>3, <3>2 DEF Continue, TypeOK, AnswerInv, n
    <3> QED BY <2>1, <3>3, OnlyTasks
  <2>4. CASE Continue(p, [task[p] EXCEPT !.pc = "status"])
    <3> DEFINE n == [task[p] EXCEPT !.pc = "status"]
    <3>1. n.app = task[p].app /\ n.pc = "status" /\ task[p] # Idle
      BY <1>2, <2>1 DEF Task, StatusCount, AdminCurrent, At, Idle
    <3>2. Backed(n) /\ Known(n)
      BY <3>1 DEF Backed, Known, AnswerInv
    <3> HIDE DEF n
    <3>3. InHand
      BY <2>4, <3>2 DEF Continue, TypeOK, AnswerInv, n
    <3> QED BY <2>1, <3>3, OnlyTasks
  <2> QED BY <1>2, <2>2, <2>3, <2>4 DEF StatusCount, AdminCurrent
<1>3. ASSUME NEW p \in Handlers, StatusCommit(p)
      PROVE  AnswerInv'
  <2> DEFINE t == task[p]
             a == t.app
  <2>1. t \in Task /\ a \in Apps /\ t.to \in Statuses /\ t.pc = "status:commit" /\ Return(p)
    BY <1>3 DEF StatusCommit, At, TypeOK, Idle, Targeted, ToStatus, Task
  <2>2. InHand
    BY <2>1, TasksDone
  <2>3. CASE ~Writable(t)
    BY <1>3, <2>2, <2>3, OnlyTasks DEF StatusCommit
  <2>4. CASE Writable(t)
    <3>1. row[a] \in Row /\ life[a] = "filed" /\ Backed(t)
      BY <2>1, <2>4 DEF TypeOK, Writable, AnswerInv
    <3>2. StatusRow(row[a], t).status = t.to
      BY <2>1, <3>1, StatusRowFields
    <3>3. /\ UNCHANGED life
          /\ row' = [row EXCEPT ![a] = StatusRow(@, t)]
          /\ answered' = [answered EXCEPT ![a] = @ \/ (t.to # t.seen /\ t.note # "absent")]
      BY <1>3, <2>4 DEF StatusCommit
    <3>4. row'[a].status = t.to /\ \A b \in Apps : b # a => row'[b] = row[b]
      BY <2>1, <3>2, <3>3 DEF TypeOK
    <3>5. /\ answered'[a] = (answered[a] \/ (t.to # t.seen /\ t.note # "absent"))
          /\ \A b \in Apps : b # a => answered'[b] = answered[b]
      BY <2>1, <3>3 DEF TypeOK
    <3>6. t.to \in Closed => answered'[a]
      BY <2>1, <3>1, <3>5 DEF Backed
    <3>7. ClosedHasAnswer'
      BY <3>3, <3>4, <3>5, <3>6 DEF ClosedHasAnswer, AnswerInv
    <3>8. AnswersStay
      BY <3>3, <3>5 DEF AnswersStay
    <3>9. Blank'
      BY <3>1, <3>3, <3>4 DEF Blank, AnswerInv
    <3> QED BY <2>2, <3>7, <3>8, <3>9, AnswerInvKept
  <2> QED BY <2>3, <2>4
<1>4. ASSUME NEW p \in Handlers, AssignCommit(p) \/ UnassignCommit(p)
      PROVE  AnswerInv'
  <2> DEFINE t == task[p]
             a == t.app
  <2>1. t \in Task /\ a \in Apps /\ UNCHANGED <<life, answered>>
    BY <1>4 DEF AssignCommit, UnassignCommit, At, TypeOK, Idle, Task
  <2>2. InHand
    <3>1. CASE Return(p)
      BY <3>1, TasksDone
    <3>2. CASE Continue(p, AfterAssign(t))
      <4>1. \/ AfterAssign(t) = Idle
            \/ AfterAssign(t).app = t.app /\ AfterAssign(t).pc = "current"
        <5> DEFINE n == [t EXCEPT !.pc = "current", !.emp = Keep, !.seen = "NEW"]
        <5>1. n.app = t.app /\ n.pc = "current"
          BY <2>1 DEF Task
        <5>2. AfterAssign(t) \in {Idle, n}
          BY DEF AfterAssign
        <5> HIDE DEF n
        <5> QED BY <5>1, <5>2
      <4>2. t # Idle /\ Idle.pc = "idle"
        BY <1>4 DEF AssignCommit, UnassignCommit, At, Idle
      <4>3. Backed(AfterAssign(t)) /\ Known(AfterAssign(t))
        BY <4>1, <4>2 DEF Backed, Known, AnswerInv
      <4> QED BY <3>2, <4>3 DEF Continue, TypeOK, AnswerInv
    <3> QED BY <1>4, <3>1, <3>2 DEF AssignCommit, UnassignCommit
  <2>3. row[a] \in Row
    BY <2>1 DEF TypeOK
  <2>4. AssignedRow(row[a], t).status \in {row[a].status, "IN_PROGRESS"}
    BY <2>1, <2>3, AssignedRowFields
  <2>5. [row[a] EXCEPT !.assignee = Null].status = row[a].status
    BY <2>3 DEF Row
  <2>6. \A b \in Apps : \/ row'[b] = row[b]
                        \/ life[b] = "filed" /\ row'[b].status \in {row[b].status} \cup Open
    <3>1. CASE UNCHANGED row
      BY <3>1
    <3>2. CASE life[a] = "filed" /\ row' = [row EXCEPT ![a] = AssignedRow(@, t)]
      BY <3>2, <2>1, <2>4 DEF TypeOK
    <3>3. CASE life[a] = "filed" /\ row' = [row EXCEPT ![a] = [@ EXCEPT !.assignee = Null]]
      BY <3>3, <2>1, <2>5 DEF TypeOK
    <3> QED BY <1>4, <3>1, <3>2, <3>3 DEF AssignCommit, UnassignCommit, Writable
  <2> QED BY <2>1, <2>2, <2>6, OpensOnly
<1>5. ASSUME NEW p \in Handlers, ReplyCommit(p)
      PROVE  AnswerInv'
  <2> DEFINE a == task[p].app
  <2>1. a \in Apps /\ Return(p) /\ UNCHANGED life
    BY <1>5 DEF ReplyCommit, At, TypeOK, Idle, Task
  <2>2. InHand
    BY <2>1, TasksDone
  <2>3. CASE life[a] # "filed"
    BY <1>5, <2>2, <2>3, OnlyTasks DEF ReplyCommit
  <2>4. CASE life[a] = "filed"
    <3>1. /\ answered'[a] = TRUE
          /\ \A b \in Apps : b # a => answered'[b] = answered[b] /\ row'[b] = row[b]
      BY <1>5, <2>1, <2>4 DEF ReplyCommit, TypeOK
    <3>2. AnswersStay /\ ClosedHasAnswer' /\ Blank'
      BY <2>1, <2>4, <3>1 DEF AnswersStay, ClosedHasAnswer, Blank, AnswerInv
    <3> QED BY <2>2, <3>2, AnswerInvKept
  <2> QED BY <2>3, <2>4
<1>6. ASSUME NEW p \in Handlers, RateCommit(p) \/ ReopenCommit(p)
      PROVE  AnswerInv'
  <2> DEFINE a == task[p].app
  <2>1. a \in Apps /\ Return(p) /\ UNCHANGED <<life, answered>>
    BY <1>6 DEF RateCommit, ReopenCommit, At, TypeOK, Idle, Task
  <2>2. row[a] \in Row
    BY <2>1 DEF TypeOK
  <2>3. [row[a] EXCEPT !.rated = TRUE].status = row[a].status
    BY <2>2 DEF Row
  <2>4. ReopenedRow(row[a]).status = "IN_PROGRESS"
    BY <2>2, ReopenedRowFields
  <2>5. \A b \in Apps : \/ row'[b] = row[b]
                        \/ life[b] = "filed" /\ row'[b].status \in {row[b].status} \cup Open
    <3>1. CASE UNCHANGED row
      BY <3>1
    <3>2. CASE life[a] = "filed" /\ row' = [row EXCEPT ![a] = [@ EXCEPT !.rated = TRUE]]
      BY <3>2, <2>1, <2>3 DEF TypeOK
    <3>3. CASE life[a] = "filed" /\ row' = [row EXCEPT ![a] = ReopenedRow(@)]
      BY <3>3, <2>1, <2>4 DEF TypeOK
    <3> QED BY <1>6, <3>1, <3>2, <3>3 DEF RateCommit, ReopenCommit
  <2> QED BY <2>1, <2>5, TasksDone, OpensOnly
<1>7. ASSUME NEW p \in Handlers, NEW a \in Apps, File(p, a)
      PROVE  AnswerInv'
  <2>1. row[a].status = "NEW"
    BY <1>7 DEF File, AnswerInv, Blank
  <2>2. AnswersStay /\ ClosedHasAnswer' /\ Blank'
    BY <1>7, <2>1 DEF File, AnswersStay, AnswerInv, ClosedHasAnswer, Blank, TypeOK
  <2> QED BY <1>7, <2>2, AnswerInvKept DEF File, AnswerInv
<1>8. ASSUME NEW p \in Handlers, NEW a \in Apps, StaffMessage(p, a)
      PROVE  AnswerInv'
  <2>1. AnswersStay /\ ClosedHasAnswer' /\ Blank'
    BY <1>8 DEF StaffMessage, AnswersStay, AnswerInv, ClosedHasAnswer, Blank, TypeOK
  <2> QED BY <1>8, <2>1, AnswerInvKept DEF StaffMessage, AnswerInv
<1>9. ASSUME NEW p \in Handlers, NEW a \in Apps, Remove(p, a)
      PROVE  AnswerInv'
  <2>1. NewRow.status = "NEW" /\ ~NewRow.escalated
    BY DEF NewRow
  <2>2. AnswersStay /\ ClosedHasAnswer' /\ Blank'
    BY <1>9, <2>1 DEF Remove, AnswersStay, AnswerInv, ClosedHasAnswer, Blank, TypeOK
  <2> QED BY <1>9, <2>2, AnswerInvKept DEF Remove, AnswerInv
<1>10. ASSUME NEW p \in Handlers, NEW e \in Emps, Archive(p, e) \/ Restore(p, e) \/ Purge(p, e)
       PROVE  AnswerInv'
  <2>1. AnswersStay /\ InHand
    BY <1>10 DEF Archive, Restore, Purge, AnswersStay, AnswerInv
  <2>2. ASSUME NEW b \in Apps
        PROVE  /\ \/ row'[b].status = row[b].status
                  \/ life[b] = "filed" /\ row'[b].status = "NEW"
               /\ row'[b].escalated = row[b].escalated
    <3>1. row[b] \in Row
      BY DEF TypeOK
    <3>2. /\ ReleasedRow(row[b], e).status \in {row[b].status, "NEW"}
          /\ ReleasedRow(row[b], e).escalated = row[b].escalated
      BY <3>1, ReleasedRowFields
    <3>3. /\ [row[b] EXCEPT !.assignee = Null].status = row[b].status
          /\ [row[b] EXCEPT !.assignee = Null].escalated = row[b].escalated
      BY <3>1 DEF Row
    <3>4. CASE Archive(p, e)
      <4>1. row'[b] = IF life[b] = "filed" THEN ReleasedRow(row[b], e) ELSE row[b]
        BY <3>4 DEF Archive
      <4> QED BY <4>1, <3>2
    <3>5. CASE Restore(p, e)
      BY <3>5 DEF Restore
    <3>6. CASE Purge(p, e)
      <4>1. row'[b] = row[b] \/ row'[b] = [row[b] EXCEPT !.assignee = Null]
        BY <3>6 DEF Purge
      <4> QED BY <4>1, <3>3
    <3> QED BY <1>10, <3>4, <3>5, <3>6
  <2>3. ClosedHasAnswer' /\ Blank'
    BY <1>10, <2>2 DEF Archive, Restore, Purge, AnswerInv, ClosedHasAnswer, Blank
  <2> QED BY <2>1, <2>3, AnswerInvKept
<1>11. CASE SweepRead
  BY <1>11, OnlyTasks DEF SweepRead, AnswerInv
<1>12. ASSUME NEW a \in Apps, SweepUpdate(a) \/ DeadlinePasses(a) \/ WindowPasses(a)
       PROVE  AnswerInv'
  <2>1. row[a] \in Row
    BY DEF TypeOK
  <2>2. /\ EscalatedRow(row[a]).status = row[a].status
        /\ [row[a] EXCEPT !.overdue = TRUE].status = row[a].status
        /\ [row[a] EXCEPT !.resolved = "old"].status = row[a].status
    BY <2>1 DEF Row, EscalatedRow
  <2>3. \A b \in Apps : \/ row'[b] = row[b]
                        \/ life[b] = "filed" /\ row'[b].status \in {row[b].status} \cup Open
    <3>1. CASE SweepUpdate(a)
      BY <3>1, <2>2 DEF SweepUpdate, TypeOK
    <3>2. CASE DeadlinePasses(a)
      BY <3>2, <2>2 DEF DeadlinePasses, TypeOK
    <3>3. CASE WindowPasses(a)
      BY <3>3, <2>2 DEF WindowPasses, TypeOK
    <3> QED BY <1>12, <3>1, <3>2, <3>3
  <2> QED BY <1>12, <2>3, OpensOnly DEF SweepUpdate, DeadlinePasses, WindowPasses, AnswerInv
<1>13. CASE Restart
  <2>1. \A b \in Apps : \/ row'[b] = row[b]
                        \/ life[b] = "filed" /\ row'[b].status \in {row[b].status} \cup Open
    <3>1. \A b \in Apps : EscalatedRow(row[b]).status = row[b].status
      BY DEF EscalatedRow, TypeOK, Row
    <3> QED BY <1>13, <3>1 DEF Restart, TypeOK
  <2>2. InHand
    BY <1>13 DEF Restart, Backed, Known, Idle
  <2> QED BY <1>13, <2>1, <2>2, OpensOnly DEF Restart
<1>14. CASE UNCHANGED vars
  BY <1>14, OnlyTasks DEF vars, AnswerInv
<1> QED
  BY <1>1, <1>2, <1>3, <1>4, <1>5, <1>6, <1>7, <1>8, <1>9, <1>10, <1>11, <1>12, <1>13, <1>14,
     StepCases

\* However the requests interleave, with deletions, archiving and restarts in
\* between: a murojaat that is closed has an answer on its thread.
THEOREM ClosedIsAnswered == Spec => []ClosedHasAnswer
<1>1. Init => AnswerInv
  BY DEF Init, AnswerInv, ClosedHasAnswer, Backed, Known, Blank, NewRow, Idle
<1>2. TypeOK /\ Targeted /\ AnswerInv /\ [Next]_vars => TypeOK' /\ Targeted' /\ AnswerInv'
  BY TypesKept, AnswerStep
<1>3. AnswerInv => ClosedHasAnswer
  BY DEF AnswerInv
<1> QED BY <1>1, <1>2, <1>3, TypesInitially, PTL DEF Spec
-----------------------------------------------------------------------------
(***************************************************************************)
(* AlertedOnce rests on the escalation flag: a row the sweep still has to  *)
(* update was not escalated when it was read, and nobody but the sweep     *)
(* escalates; a row that is not escalated has had no alert since it was    *)
(* filed or reopened.                                                      *)
(***************************************************************************)
AlertInv ==
    \A a \in Apps :
        /\ alerts[a] <= 1
        /\ ~row[a].escalated => alerts[a] = 0
        /\ a \in sweep /\ life[a] = "filed" => ~row[a].escalated

\* A step that sends no alert: flags fall with the count they stand for, and
\* no murojaat joins the sweep or the table with its flag up.
LEMMA NoAlert ==
    ASSUME AlertInv, UNCHANGED sweep,
           \A a \in Apps :
               /\ life'[a] = "filed" => life[a] = "filed" \/ ~row'[a].escalated
               /\ \/ row'[a].escalated = row[a].escalated /\ alerts'[a] = alerts[a]
                  \/ ~row'[a].escalated /\ alerts'[a] = 0
    PROVE  AlertInv'
BY DEF AlertInv

LEMMA AlertStep ==
    ASSUME TypeOK, Targeted, Blank, AlertInv, [Next]_vars
    PROVE  AlertInv'
<1>1. ASSUME NEW p \in Handlers, NEW t \in Task, TakeUp(p, t)
      PROVE  AlertInv'
  BY <1>1, ReadKeepsRows DEF AlertInv
<1>2. ASSUME NEW p \in Handlers,
             StatusCount(p) \/ AdminCurrent(p) \/ UNCHANGED vars
      PROVE  AlertInv'
  BY <1>2 DEF StatusCount, AdminCurrent, SameRow, vars, AlertInv
<1>3. ASSUME NEW p \in Handlers, StatusCommit(p)
      PROVE  AlertInv'
  <2> DEFINE t == task[p]
             a == t.app
             again == t.seen = "RESOLVED" /\ t.to = "IN_PROGRESS"
  <2>1. t \in Task /\ a \in Apps /\ t.to \in Statuses
    BY <1>3 DEF StatusCommit, At, TypeOK, Idle, Targeted, ToStatus, Task
  <2>2. row[a] \in Row
    BY <2>1 DEF TypeOK
  <2>3. StatusRow(row[a], t).escalated = IF again THEN FALSE ELSE row[a].escalated
    BY <2>1, <2>2, StatusRowFields
  <2>4. UNCHANGED <<life, sweep>>
    BY <1>3 DEF StatusCommit
  <2>5. CASE UNCHANGED <<row, alerts>>
    BY <2>4, <2>5, NoAlert
  <2>6. CASE /\ row' = [row EXCEPT ![a] = StatusRow(@, t)]
             /\ alerts' = [alerts EXCEPT ![a] = IF again THEN 0 ELSE @]
    <3>1. /\ row'[a].escalated = IF again THEN FALSE ELSE row[a].escalated
          /\ alerts'[a] = IF again THEN 0 ELSE alerts[a]
          /\ \A b \in Apps : b # a => row'[b] = row[b] /\ alerts'[b] = alerts[b]
      BY <2>1, <2>3, <2>6 DEF TypeOK
    <3> QED BY <2>4, <3>1, NoAlert
  <2> QED BY <1>3, <2>5, <2>6 DEF StatusCommit
<1>4. ASSUME NEW p \in Handlers,
             AssignCommit(p) \/ UnassignCommit(p) \/ ReplyCommit(p) \/ RateCommit(p)
      PROVE  AlertInv'
  <2> DEFINE t == task[p]
             a == t.app
  <2>1. t \in Task /\ a \in Apps /\ UNCHANGED <<life, sweep, alerts>>
    BY <1>4 DEF AssignCommit, UnassignCommit, ReplyCommit, RateCommit, At, TypeOK, Idle, Task
  <2>2. row[a] \in Row
    BY <2>1 DEF TypeOK
  <2>3. /\ AssignedRow(row[a], t).escalated = row[a].escalated
        /\ RepliedRow(row[a], t).escalated = row[a].escalated
        /\ [row[a] EXCEPT !.assignee = Null].escalated = row[a].escalated
        /\ [row[a] EXCEPT !.rated = TRUE].escalated = row[a].escalated
    BY <2>1, <2>2, AssignedRowFields, RepliedRowFields DEF Row
  <2>4. ASSUME NEW r, row' = [row EXCEPT ![a] = r], r.escalated = row[a].escalated
        PROVE  AlertInv'
    <3>1. \A b \in Apps : row'[b].escalated = row[b].escalated
      BY <2>1, <2>4 DEF TypeOK
    <3> QED BY <2>1, <3>1, NoAlert
  <2>5. CASE UNCHANGED row
    BY <2>1, <2>5, NoAlert
  <2>6. CASE AssignCommit(p)
    BY <2>3, <2>4, <2>5, <2>6 DEF AssignCommit
  <2>7. CASE UnassignCommit(p)
    BY <2>3, <2>4, <2>5, <2>7 DEF UnassignCommit
  <2>8. CASE ReplyCommit(p)
    BY <2>3, <2>4, <2>5, <2>8 DEF ReplyCommit
  <2>9. CASE RateCommit(p)
    BY <2>3, <2>4, <2>5, <2>9 DEF RateCommit
  <2> QED BY <1>4, <2>6, <2>7, <2>8, <2>9
<1>5. ASSUME NEW p \in Handlers, ReopenCommit(p)
      PROVE  AlertInv'
  <2> DEFINE a == task[p].app
  <2>1. a \in Apps /\ UNCHANGED <<life, sweep>>
    BY <1>5 DEF ReopenCommit, At, TypeOK, Idle, Task
  <2>2. ~ReopenedRow(row[a]).escalated
    BY <2>1, ReopenedRowFields DEF TypeOK
  <2>3. CASE UNCHANGED <<row, alerts>>
    BY <2>1, <2>3, NoAlert
  <2>4. CASE row' = [row EXCEPT ![a] = ReopenedRow(@)] /\ alerts' = [alerts EXCEPT ![a] = 0]
    <3>1. /\ ~row'[a].escalated /\ alerts'[a] = 0
          /\ \A b \in Apps : b # a => row'[b] = row[b] /\ alerts'[b] = alerts[b]
      BY <2>1, <2>2, <2>4 DEF TypeOK
    <3> QED BY <2>1, <3>1, NoAlert
  <2> QED BY <1>5, <2>3, <2>4 DEF ReopenCommit
<1>6. ASSUME NEW p \in Handlers, NEW a \in Apps,
             File(p, a) \/ StaffMessage(p, a) \/ Remove(p, a)
      PROVE  AlertInv'
  <2>1. CASE File(p, a) \/ StaffMessage(p, a)
    BY <2>1, NoAlert DEF File, StaffMessage, Blank, TypeOK
  <2>2. CASE Remove(p, a)
    <3>1. ~NewRow.escalated
      BY DEF NewRow
    <3> QED BY <2>2, <3>1, NoAlert DEF Remove, TypeOK
  <2> QED BY <1>6, <2>1, <2>2
<1>7. ASSUME NEW p \in Handlers, NEW e \in Emps, Archive(p, e) \/ Restore(p, e) \/ Purge(p, e)
      PROVE  AlertInv'
  <2>1. ASSUME NEW b \in Apps
        PROVE  row'[b].escalated = row[b].escalated
    <3>1. row[b] \in Row
      BY DEF TypeOK
    <3>2. ReleasedRow(row[b], e).escalated = row[b].escalated
      BY <3>1, ReleasedRowFields
    <3>3. [row[b] EXCEPT !.assignee = Null].escalated = row[b].escalated
      BY <3>1 DEF Row
    <3>4. \/ row'[b] = row[b] \/ row'[b] = ReleasedRow(row[b], e)
          \/ row'[b] = [row[b] EXCEPT !.assignee = Null]
      BY <1>7 DEF Archive, Restore, Purge
    <3> QED BY <3>2, <3>3, <3>4
  <2> QED BY <1>7, <2>1, NoAlert DEF Archive, Restore, Purge
<1>8. CASE SweepRead
  BY <1>8 DEF SweepRead, AlertInv, Late
<1>9. ASSUME NEW a \in Apps, SweepUpdate(a)
      PROVE  AlertInv'
  <2>1. CASE life[a] = "filed"
    <3>1. EscalatedRow(row[a]).escalated /\ alerts[a] = 0
      BY <1>9, <2>1 DEF SweepUpdate, EscalatedRow, AlertInv, TypeOK, Row
    <3>2. /\ row'[a].escalated /\ alerts'[a] = 1 /\ sweep' = sweep \ {a} /\ UNCHANGED life
          /\ \A b \in Apps : b # a => row'[b] = row[b] /\ alerts'[b] = alerts[b]
      BY <1>9, <2>1, <3>1 DEF SweepUpdate, TypeOK
    <3> QED BY <3>2 DEF AlertInv
  <2>2. CASE life[a] # "filed"
    BY <1>9, <2>2 DEF SweepUpdate, AlertInv
  <2> QED BY <2>1, <2>2
<1>10. CASE Restart
  <2>1. \A b \in Apps : row'[b] = row[b] \/ row'[b].escalated
    BY <1>10 DEF Restart, EscalatedRow, TypeOK, Row
  <2> QED BY <1>10, <2>1 DEF Restart, AlertInv
<1>11. ASSUME NEW a \in Apps, DeadlinePasses(a) \/ WindowPasses(a)
       PROVE  AlertInv'
  <2>1. /\ [row[a] EXCEPT !.overdue = TRUE].escalated = row[a].escalated
        /\ [row[a] EXCEPT !.resolved = "old"].escalated = row[a].escalated
    BY DEF TypeOK, Row
  <2>2. \A b \in Apps : row'[b].escalated = row[b].escalated
    <3>1. CASE DeadlinePasses(a)
      BY <3>1, <2>1 DEF DeadlinePasses, TypeOK
    <3>2. CASE WindowPasses(a)
      BY <3>2, <2>1 DEF WindowPasses, TypeOK
    <3> QED BY <1>11, <3>1, <3>2
  <2> QED BY <1>11, <2>2, NoAlert DEF DeadlinePasses, WindowPasses
<1> QED
  BY <1>1, <1>2, <1>3, <1>4, <1>5, <1>6, <1>7, <1>8, <1>9, <1>10, <1>11, StepCases

\* The SLA watcher reports a deadline at most once, whatever handlers, deletions
\* and restarts do between its query and its updates.
THEOREM AlertsOnce == Spec => []AlertedOnce
<1>1. Init => AlertInv
  BY DEF Init, AlertInv, NewRow
<1>2. Init => AnswerInv
  BY DEF Init, AnswerInv, ClosedHasAnswer, Backed, Known, Blank, NewRow, Idle
<1>3. TypeOK /\ Targeted /\ AnswerInv /\ AlertInv /\ [Next]_vars
      => TypeOK' /\ Targeted' /\ AnswerInv' /\ AlertInv'
  BY TypesKept, AnswerStep, AlertStep DEF AnswerInv
<1>4. AlertInv => AlertedOnce
  BY DEF AlertInv, AlertedOnce
<1> QED BY <1>1, <1>2, <1>3, <1>4, TypesInitially, PTL DEF Spec
-----------------------------------------------------------------------------
(***************************************************************************)
(* ReopenOvershoot: each request that has read the counter below the cap   *)
(* and not yet committed may still add one, so the counter and the number  *)
(* of those requests are bounded together.                                 *)
(***************************************************************************)
Reopening(a) == {p \in Handlers : task[p].pc = "reopen:commit" /\ task[p].app = a}

OvershootInv ==
    \A a \in Apps :
        row[a].reopens + Cardinality(Reopening(a)) <= MaxReopens + Cardinality(Handlers) - 1

LEMMA ReopeningFinite ==
    \A a : /\ IsFiniteSet(Reopening(a)) /\ Cardinality(Reopening(a)) \in Nat
           /\ Cardinality(Reopening(a)) <= Cardinality(Handlers)
           /\ Cardinality(Handlers) \in Nat
BY FS_Subset, FS_CardinalityType DEF Reopening

LEMMA ReopeningFiniteAfter ==
    \A a : /\ IsFiniteSet(Reopening(a)') /\ Cardinality(Reopening(a)') \in Nat
           /\ Cardinality(Reopening(a)') <= Cardinality(Handlers)
BY FS_Subset, FS_CardinalityType DEF Reopening

\* A murojaat whose counter does not rise and that no request joins.
LEMMA NotJoined ==
    ASSUME TypeOK, TypeOK', NEW a \in Apps, row'[a].reopens <= row[a].reopens,
           Reopening(a)' \subseteq Reopening(a),
           row[a].reopens + Cardinality(Reopening(a)) <= MaxReopens + Cardinality(Handlers) - 1
    PROVE  row'[a].reopens + Cardinality(Reopening(a)') <= MaxReopens + Cardinality(Handlers) - 1
<1>1. Cardinality(Reopening(a)') <= Cardinality(Reopening(a))
  BY ReopeningFinite, FS_Subset
<1>2. row[a].reopens \in Nat /\ row'[a].reopens \in Nat
  BY DEF TypeOK, Row
<1> QED BY <1>1, <1>2, ReopeningFinite, ReopeningFiniteAfter

\* A step that raises no counter and puts nobody about to reopen.
LEMMA NobodyJoins ==
    ASSUME TypeOK, TypeOK', OvershootInv,
           \A a \in Apps : row'[a].reopens <= row[a].reopens,
           \A q \in Handlers : task'[q] = task[q] \/ task'[q].pc # "reopen:commit"
    PROVE  OvershootInv'
<1>1. ASSUME NEW a \in Apps PROVE Reopening(a)' \subseteq Reopening(a)
  BY DEF Reopening
<1>2. ASSUME NEW a \in Apps
      PROVE  row'[a].reopens + Cardinality(Reopening(a)') <= MaxReopens + Cardinality(Handlers) - 1
  BY <1>1, NotJoined DEF OvershootInv
<1> QED BY <1>2 DEF OvershootInv
\* Only ReopenRead puts a handler about to reopen, and it has read the counter.
LEMMA OnlyReopenReadJoins ==
    ASSUME TypeOK, NEW p \in Handlers, NEW t \in Task, TakeUp(p, t), ~ReopenRead(p, t)
    PROVE  task'[p].pc # "reopen:commit"
<1>1. ASSUME NEW n, Continue(p, n), n.pc # "reopen:commit"
      PROVE  task'[p].pc # "reopen:commit"
  BY <1>1 DEF Continue, TypeOK
<1>2. Idle.pc # "reopen:commit"
  BY DEF Idle
<1>3. CASE StatusRead(p, t)
  <2> DEFINE n == [t EXCEPT !.seen = row[t.app].status, !.note = Posted(row[t.app], t),
                            !.pc = IF MustCount(row[t.app], t) THEN "status:count" ELSE "status:commit"]
  <2>1. n.pc # "reopen:commit"
    BY DEF Task
  <2>2. Return(p) \/ Continue(p, n)
    BY <1>3 DEF StatusRead
  <2> HIDE DEF n
  <2> QED BY <1>1, <1>2, <2>1, <2>2 DEF Return
<1>4. CASE AssignRead(p, t)
  <2>1. [t EXCEPT !.pc = "assign:commit", !.seen = row[t.app].status].pc # "reopen:commit"
    BY DEF Task
  <2> QED BY <1>1, <1>2, <1>4, <2>1 DEF AssignRead, Return
<1>5. CASE ReplyRead(p, t)
  <2>1. [t EXCEPT !.pc = "reply:commit", !.seen = row[t.app].status].pc # "reopen:commit"
    BY DEF Task
  <2> QED BY <1>1, <1>2, <1>5, <2>1 DEF ReplyRead, Return
<1>6. CASE RateRead(p, t)
  <2>1. [t EXCEPT !.pc = "rate:commit", !.seen = "RESOLVED"].pc # "reopen:commit"
    BY DEF Task
  <2> QED BY <1>1, <1>2, <1>6, <2>1 DEF RateRead, Return
<1>7. CASE AdminPatch(p, t)
  <2>1. /\ [t EXCEPT !.pc = "assign"].pc # "reopen:commit"
        /\ [t EXCEPT !.pc = "unassign:commit"].pc # "reopen:commit"
        /\ [t EXCEPT !.pc = "current", !.emp = Keep, !.seen = "NEW"].pc # "reopen:commit"
    BY DEF Task
  <2> QED BY <1>1, <1>2, <1>7, <2>1 DEF AdminPatch, AfterAssign, Return
<1> QED BY <1>3, <1>4, <1>5, <1>6, <1>7 DEF TakeUp

LEMMA OvershootStep ==
    ASSUME TypeOK, Targeted, TypeOK', OvershootInv, [Next]_vars
    PROVE  OvershootInv'
<1> DEFINE Bound == MaxReopens + Cardinality(Handlers) - 1
           NoneJoin == \A q \in Handlers : task'[q] = task[q] \/ task'[q].pc # "reopen:commit"
<1>1. \A a \in Apps : row[a].reopens \in Nat /\ row'[a].reopens \in Nat
  BY DEF TypeOK, Row
<1>2. ASSUME NEW p \in Handlers, NEW t \in Task, TakeUp(p, t)
      PROVE  OvershootInv'
  <2>1. UNCHANGED row /\ \A q \in Handlers : q # p => task'[q] = task[q]
    BY <1>2, ReadKeepsRows
  <2>2. CASE ~ReopenRead(p, t)
    BY <1>1, <1>2, <2>1, <2>2, OnlyReopenReadJoins, NobodyJoins
  <2>3. CASE ReopenRead(p, t) /\ ~MayReopen(row[t.app])
    <3>1. task'[p].pc # "reopen:commit"
      BY <2>3 DEF ReopenRead, Return, Continue, TypeOK, Idle
    <3> QED BY <1>1, <2>1, <3>1, NobodyJoins
  <2>4. CASE ReopenRead(p, t) /\ MayReopen(row[t.app])
    <3>1. task'[p] # Idle => task'[p].app = t.app
      BY <1>2, ReadKeepsRows
    <3>2. Idle.pc # "reopen:commit"
      BY DEF Idle
    <3>3. ASSUME NEW b \in Apps PROVE row'[b].reopens + Cardinality(Reopening(b)') <= Bound
      <4>1. CASE b = t.app
        <5>1. row[b].reopens < MaxReopens /\ row'[b] = row[b]
          BY <2>1, <2>4, <4>1 DEF MayReopen
        <5> QED BY <1>1, <5>1, ReopeningFinite, ReopeningFiniteAfter
      <4>2. CASE b # t.app
        <5>1. Reopening(b)' \subseteq Reopening(b)
          BY <2>1, <3>1, <3>2, <4>2 DEF Reopening
        <5> QED BY <1>1, <2>1, <5>1, NotJoined DEF OvershootInv
      <4> QED BY <4>1, <4>2
    <3> QED BY <3>3 DEF OvershootInv
  <2> QED BY <2>2, <2>3, <2>4
<1>3. ASSUME NEW p \in Handlers, StatusCount(p) \/ AdminCurrent(p)
      PROVE  OvershootInv'
  <2>1. task[p] \in Task /\ UNCHANGED row
    BY <1>3 DEF StatusCount, AdminCurrent, At, TypeOK, Idle, SameRow
  <2>2. /\ [task[p] EXCEPT !.pc = "status:commit"].pc # "reopen:commit"
        /\ [task[p] EXCEPT !.pc = "status"].pc # "reopen:commit"
    BY <2>1 DEF Task
  <2>3. NoneJoin
    <3>1. ASSUME NEW n, Continue(p, n), n.pc # "reopen:commit" PROVE NoneJoin
      BY <3>1 DEF Continue, TypeOK
    <3>2. Idle.pc # "reopen:commit"
      BY DEF Idle
    <3> QED BY <1>3, <2>2, <3>1, <3>2 DEF StatusCount, AdminCurrent, Return
  <2> QED BY <1>1, <2>1, <2>3, NobodyJoins
<1>4. ASSUME NEW p \in Handlers, StatusCommit(p) \/ ReplyCommit(p) \/ RateCommit(p)
      PROVE  OvershootInv'
  <2> DEFINE t == task[p]
             a == t.app
  <2>1. t \in Task /\ a \in Apps /\ Return(p) /\ (StatusCommit(p) => t.to \in Statuses)
    BY <1>4 DEF StatusCommit, ReplyCommit, RateCommit, At, TypeOK, Idle, Task, Targeted, ToStatus
  <2>2. row[a] \in Row
    BY <2>1 DEF TypeOK
  <2>3. ASSUME NEW r, row' = [row EXCEPT ![a] = r], r.reopens = row[a].reopens
        PROVE  \A b \in Apps : row'[b].reopens = row[b].reopens
    BY <2>1, <2>3 DEF TypeOK
  <2>4. /\ StatusCommit(p) => StatusRow(row[a], t).reopens = row[a].reopens
        /\ RepliedRow(row[a], t).reopens = row[a].reopens
        /\ [row[a] EXCEPT !.rated = TRUE].reopens = row[a].reopens
    BY <2>1, <2>2, StatusRowFields, RepliedRowFields DEF Row
  <2>5. \A b \in Apps : row'[b].reopens = row[b].reopens
    <3>1. CASE UNCHANGED row
      BY <3>1
    <3>2. CASE StatusCommit(p)
      BY <2>3, <2>4, <3>1, <3>2 DEF StatusCommit
    <3>3. CASE ReplyCommit(p)
      BY <2>3, <2>4, <3>1, <3>3 DEF ReplyCommit
    <3>4. CASE RateCommit(p)
      BY <2>3, <2>4, <3>1, <3>4 DEF RateCommit
    <3> QED BY <1>4, <3>2, <3>3, <3>4
  <2>6. NoneJoin
    BY <2>1 DEF Return, Continue, TypeOK, Idle
  <2> QED BY <1>1, <2>5, <2>6, NobodyJoins
<1>5. ASSUME NEW p \in Handlers, AssignCommit(p) \/ UnassignCommit(p)
      PROVE  OvershootInv'
  <2> DEFINE t == task[p]
             a == t.app
  <2>1. t \in Task /\ a \in Apps
    BY <1>5 DEF AssignCommit, UnassignCommit, At, TypeOK, Idle, Task
  <2>2. row[a] \in Row
    BY <2>1 DEF TypeOK
  <2>3. /\ AssignedRow(row[a], t).reopens = row[a].reopens
        /\ [row[a] EXCEPT !.assignee = Null].reopens = row[a].reopens
    BY <2>1, <2>2, AssignedRowFields DEF Row
  <2>4. ASSUME NEW r, row' = [row EXCEPT ![a] = r], r.reopens = row[a].reopens
        PROVE  \A b \in Apps : row'[b].reopens = row[b].reopens
    BY <2>1, <2>4 DEF TypeOK
  <2>5. \A b \in Apps : row'[b].reopens = row[b].reopens
    BY <1>5, <2>3, <2>4 DEF AssignCommit, UnassignCommit
  <2>6. Idle.pc # "reopen:commit" /\ AfterAssign(t).pc # "reopen:commit"
    <3>1. [t EXCEPT !.pc = "current", !.emp = Keep, !.seen = "NEW"].pc # "reopen:commit"
      BY <2>1 DEF Task
    <3> QED BY <3>1 DEF AfterAssign, Idle
  <2>7. NoneJoin
    BY <1>5, <2>6 DEF AssignCommit, UnassignCommit, Return, Continue, TypeOK
  <2> QED BY <1>1, <2>5, <2>7, NobodyJoins
<1>6. ASSUME NEW p \in Handlers, ReopenCommit(p)
      PROVE  OvershootInv'
  <2>0. PICK a \in Apps : a = task[p].app
    BY <1>6 DEF ReopenCommit, At, TypeOK, Idle, Task
  <2>1. a \in Apps /\ Return(p) /\ p \in Reopening(a)
    BY <1>6, <2>0 DEF ReopenCommit, At, TypeOK, Idle, Task, Reopening
  <2>2. NoneJoin
    BY <2>1 DEF Return, Continue, TypeOK, Idle
  <2>3. CASE UNCHANGED row
    BY <1>1, <2>2, <2>3, NobodyJoins
  <2>4. CASE row' = [row EXCEPT ![a] = ReopenedRow(@)]
    <3>0. row[a] \in Row
      BY <2>1 DEF TypeOK
    <3>1. row'[a].reopens = row[a].reopens + 1 /\ \A b \in Apps : b # a => row'[b] = row[b]
      <4>1. ReopenedRow(row[a]).reopens = row[a].reopens + 1
        BY <3>0, ReopenedRowFields
      <4>2. row'[a] = ReopenedRow(row[a]) /\ \A b \in Apps : b # a => row'[b] = row[b]
        BY <2>1, <2>4 DEF TypeOK
      <4> QED BY <4>1, <4>2
    <3>2. \A b \in Apps : Reopening(b)' \subseteq Reopening(b)
      BY <2>2 DEF Reopening
    <3>3. Reopening(a)' \subseteq Reopening(a) \ {p}
      <4>1. task'[p].pc # "reopen:commit"
        BY <2>1 DEF Return, Continue, TypeOK, Idle
      <4>2. p \notin Reopening(a)'
        BY <4>1 DEF Reopening
      <4> QED BY <2>1, <3>2, <4>2
    <3>4. Cardinality(Reopening(a)') <= Cardinality(Reopening(a)) - 1
      <4>1. /\ IsFiniteSet(Reopening(a) \ {p})
            /\ Cardinality(Reopening(a) \ {p}) = Cardinality(Reopening(a)) - 1
        BY <2>1, ReopeningFinite, FS_RemoveElement
      <4>2. Cardinality(Reopening(a)') <= Cardinality(Reopening(a) \ {p})
        BY <3>3, <4>1, FS_Subset
      <4> QED BY <4>1, <4>2
    <3>5. ASSUME NEW b \in Apps PROVE row'[b].reopens + Cardinality(Reopening(b)') <= Bound
      <4>1. CASE b = a
        <5>1. row[a].reopens + Cardinality(Reopening(a)) <= Bound
          BY <2>1 DEF OvershootInv
        <5>2. row[a].reopens \in Nat /\ Cardinality(Reopening(a)) \in Nat
              /\ Cardinality(Reopening(a)') \in Nat /\ Bound \in Int
          BY <1>1, <2>1, ReopeningFinite, ReopeningFiniteAfter
        <5> HIDE DEF Bound
        <5> QED BY <3>1, <3>4, <4>1, <5>1, <5>2
      <4>2. CASE b # a
        BY <1>1, <3>1, <3>2, <4>2, NotJoined DEF OvershootInv
      <4> QED BY <4>1, <4>2
    <3> QED BY <3>5 DEF OvershootInv
  <2> QED BY <1>6, <2>0, <2>3, <2>4 DEF ReopenCommit
<1>7. ASSUME NEW p \in Handlers, NEW a \in Apps,
             File(p, a) \/ StaffMessage(p, a) \/ Remove(p, a)
      PROVE  OvershootInv'
  <2>1. \A b \in Apps : row'[b].reopens <= row[b].reopens
    BY <1>1, <1>7 DEF File, StaffMessage, Remove, NewRow, TypeOK
  <2> QED BY <1>7, <2>1, NobodyJoins DEF File, StaffMessage, Remove
<1>8. ASSUME NEW p \in Handlers, NEW e \in Emps, Archive(p, e) \/ Restore(p, e) \/ Purge(p, e)
      PROVE  OvershootInv'
  <2>1. ASSUME NEW b \in Apps
        PROVE  row'[b].reopens = row[b].reopens
    <3>1. row[b] \in Row
      BY DEF TypeOK
    <3>2. ReleasedRow(row[b], e).reopens = row[b].reopens
      BY <3>1, ReleasedRowFields
    <3>3. [row[b] EXCEPT !.assignee = Null].reopens = row[b].reopens
      BY <3>1 DEF Row
    <3>4. \/ row'[b] = row[b] \/ row'[b] = ReleasedRow(row[b], e)
          \/ row'[b] = [row[b] EXCEPT !.assignee = Null]
      BY <1>8 DEF Archive, Restore, Purge
    <3> QED BY <3>2, <3>3, <3>4
  <2> QED BY <1>1, <1>8, <2>1, NobodyJoins DEF Archive, Restore, Purge
<1>9. ASSUME SweepRead \/ (\E a \in Apps : SweepUpdate(a) \/ DeadlinePasses(a) \/ WindowPasses(a))
      PROVE  OvershootInv'
  <2>1. \A a \in Apps : /\ EscalatedRow(row[a]).reopens = row[a].reopens
                        /\ [row[a] EXCEPT !.overdue = TRUE].reopens = row[a].reopens
                        /\ [row[a] EXCEPT !.resolved = "old"].reopens = row[a].reopens
    BY DEF EscalatedRow, TypeOK, Row
  <2>2. \A b \in Apps : row'[b].reopens = row[b].reopens
    <3>1. CASE \E a \in Apps : DeadlinePasses(a)
      BY <3>1, <2>1 DEF DeadlinePasses, TypeOK
    <3>2. CASE \E a \in Apps : WindowPasses(a)
      BY <3>2, <2>1 DEF WindowPasses, TypeOK
    <3>3. CASE SweepRead \/ \E a \in Apps : SweepUpdate(a)
      BY <3>3, <2>1 DEF SweepRead, SweepUpdate, TypeOK
    <3> QED BY <1>9, <3>1, <3>2, <3>3
  <2> QED BY <1>1, <1>9, <2>2, NobodyJoins DEF SweepRead, SweepUpdate, DeadlinePasses, WindowPasses
<1>10. CASE Restart
  <2>1. \A b \in Apps : row'[b].reopens = row[b].reopens
    BY <1>10 DEF Restart, EscalatedRow, TypeOK, Row
  <2>2. NoneJoin
    BY <1>10 DEF Restart, Idle
  <2> QED BY <1>1, <2>1, <2>2, NobodyJoins
<1>11. CASE UNCHANGED vars
  BY <1>1, <1>11, NobodyJoins DEF vars
<1> QED
  BY <1>2, <1>3, <1>4, <1>5, <1>6, <1>7, <1>8, <1>9, <1>10, <1>11, StepCases

\* However many requests to reopen race, the counter passes the cap by less than
\* their number; with one handler at a time it never passes it.
THEOREM OvershootBounded == Spec => []ReopenOvershoot
<1>1. Init => OvershootInv
  <2>1. ASSUME Init, NEW a \in Apps
        PROVE  row[a].reopens + Cardinality(Reopening(a)) <= MaxReopens + Cardinality(Handlers) - 1
    <3>1. row[a].reopens = 0 /\ Reopening(a) = {}
      BY <2>1 DEF Init, NewRow, Reopening, Idle
    <3>2. Cardinality(Handlers) # 0 /\ Cardinality(Handlers) \in Nat
      BY FS_EmptySet, FS_CardinalityType
    <3> QED BY <3>1, <3>2, FS_EmptySet
  <2> QED BY <2>1 DEF OvershootInv
<1>2. TypeOK /\ Targeted /\ OvershootInv /\ [Next]_vars => TypeOK' /\ Targeted' /\ OvershootInv'
  BY TypesKept, OvershootStep
<1>3. TypeOK /\ OvershootInv => ReopenOvershoot
  <2>1. ASSUME TypeOK, OvershootInv, NEW a \in Apps
        PROVE  row[a].reopens <= MaxReopens + Cardinality(Handlers) - 1
    <3>1. row[a].reopens + Cardinality(Reopening(a)) <= MaxReopens + Cardinality(Handlers) - 1
          /\ row[a].reopens \in Nat
      BY <2>1 DEF OvershootInv, TypeOK, Row
    <3> QED BY <3>1, ReopeningFinite
  <2> QED BY <2>1 DEF ReopenOvershoot
<1> QED BY <1>1, <1>2, <1>3, TypesInitially, PTL DEF Spec
-----------------------------------------------------------------------------
(***************************************************************************)
(* One request at a time.  What a lone handler has read about a murojaat   *)
(* is still so when it commits: only the sweep and the clock move under    *)
(* it, and they change neither status, nor answers, nor counters.          *)
(***************************************************************************)
OneAtATime == \E p : Handlers = {p}

\* The marks, the history and the counter of one murojaat agree with its status.
Fine(a) ==
    /\ row[a].resolved # "unset" <=> row[a].status = "RESOLVED"
    /\ row[a].rated => row[a].status = "RESOLVED"
    /\ row[a].status # audit[a] => row[a].status = "NEW"
    /\ row[a].reopens <= MaxReopens

Judged == {"status:count", "status:commit", "assign:commit", "reply:commit",
           "rate:commit", "reopen:commit"}

\* What a task has seen, and decided from it, is the case now.
Current(t) ==
    t # Idle =>
    /\ life[t.app] = "filed"
    /\ t.pc \in Judged => t.seen = row[t.app].status
    /\ t.pc \in {"status:count", "status:commit"} /\ t.to # t.seen => t.to \in Allowed(t.seen)
    /\ t.pc \in {"rate:commit", "reopen:commit"} => t.seen = "RESOLVED"
    /\ t.pc = "reopen:commit" => row[t.app].reopens < MaxReopens

SerialInv ==
    /\ \A a \in Apps : Fine(a)
    /\ \A p \in Handlers : Current(task[p])

\* What one step may do to the status, the answers and the counter of a murojaat.
Moves(a) ==
    LET s == row[a].status
        n == row[a].reopens
        told == answered[a] => answered'[a]
    IN
    \/ s' = s /\ n' = n /\ told
    \/ s = "NEW" /\ s' = "IN_PROGRESS" /\ n' = n /\ told
    \/ s \in Open /\ s' \in Closed /\ n' = n /\ answered'[a]
    \/ s = "RESOLVED" /\ s' = "IN_PROGRESS" /\ n' = n /\ told
    \/ s = "RESOLVED" /\ s' = "IN_PROGRESS" /\ n < MaxReopens /\ n' = n + 1 /\ answered'[a] = answered[a]
    \/ s = "IN_PROGRESS" /\ s' = "NEW" /\ n' = n /\ answered'[a] = answered[a]

\* Those are the steps the lifecycle has.
LEMMA MovesKeepPromise ==
    ASSUME TypeOK, TypeOK', NEW a \in Apps, Moves(a)
    PROVE  [Promise(a)!Next]_(Promise(a)!vars)
<1>1. answered[a] \in BOOLEAN /\ answered'[a] \in BOOLEAN
  BY DEF TypeOK
<1> QED
  BY <1>1 DEF Moves, Promise!Next, Promise!Answer, Promise!Start, Promise!Close,
              Promise!AdminReopen, Promise!CitizenReopen, Promise!Release, Promise!vars

\* A murojaat of which a step changes none of that.
Quiet(a) ==
    /\ row'[a].status = row[a].status /\ row'[a].reopens = row[a].reopens
    /\ row'[a].resolved = "unset" <=> row[a].resolved = "unset"
    /\ row'[a].rated = row[a].rated
    /\ audit'[a] = audit[a] /\ (answered[a] => answered'[a])

LEMMA QuietIsFine ==
    ASSUME NEW a \in Apps, Fine(a), Quiet(a)
    PROVE  Fine(a)' /\ Moves(a)
BY DEF Quiet, Fine, Moves

\* What every step does to every murojaat.
Good(a) == Fine(a)' /\ (life'[a] = "deleted" \/ Moves(a))

LEMMA MostAreQuiet ==
    ASSUME SerialInv, NEW a \in Apps, Good(a), \A b \in Apps : b # a => Quiet(b)
    PROVE  \A b \in Apps : Good(b)
BY QuietIsFine DEF SerialInv, Good

\* A lone handler that is idle, or becomes so, has nothing in hand.
LEMMA NothingInHand ==
    ASSUME OneAtATime, NEW p \in Handlers, task'[p] = Idle
    PROVE  (\A q \in Handlers : Current(task[q]))'
BY DEF OneAtATime, Current

LEMMA ReturnsEmpty ==
    ASSUME TypeOK, NEW p \in Handlers, Return(p)
    PROVE  task'[p] = Idle
BY DEF TypeOK, Return, Continue

LEMMA IdleIsIdle ==
    ASSUME TypeOK, NEW p \in Handlers, At(p, "idle")
    PROVE  task[p] = Idle
<1>1. task[p] \in Task \cup {Idle}
  BY DEF TypeOK
<1> QED BY <1>1 DEF At, Task, Reads, Writes
-----------------------------------------------------------------------------
\* The marks of the rows the handlers write.
LEMMA StatusRowMarks ==
    ASSUME NEW r \in Row, NEW t \in Task
    PROVE  /\ StatusRow(r, t).rated = IF t.seen = "RESOLVED" /\ t.to = "IN_PROGRESS" THEN FALSE ELSE r.rated
           /\ StatusRow(r, t).resolved =
                 IF t.to # t.seen /\ t.to = "RESOLVED" THEN "recent"
                 ELSE IF t.to # t.seen /\ t.to = "IN_PROGRESS" THEN "unset" ELSE r.resolved
BY DEF Row, StatusRow

LEMMA ReopenedRowMarks ==
    ASSUME NEW r \in Row
    PROVE  ReopenedRow(r).resolved = "unset" /\ ReopenedRow(r).rated = FALSE
BY DEF Row, ReopenedRow

LEMMA AssignedRowMarks ==
    ASSUME NEW r \in Row, NEW t \in Task
    PROVE  /\ AssignedRow(r, t).resolved = r.resolved /\ AssignedRow(r, t).rated = r.rated
           /\ AssignedRow(r, t).status = IF Starts(t) THEN "IN_PROGRESS" ELSE r.status
BY DEF Row, AssignedRow

LEMMA RepliedRowMarks ==
    ASSUME NEW r \in Row, NEW t \in Task
    PROVE  /\ RepliedRow(r, t).rated = r.rated
           /\ RepliedRow(r, t).status = Replied(r.status, t)
           /\ RepliedRow(r, t).resolved = IF Resolves(t) THEN "recent" ELSE r.resolved
BY DEF Row, RepliedRow

LEMMA ReleasedRowMarks ==
    ASSUME NEW r \in Row, NEW e
    PROVE  /\ ReleasedRow(r, e).resolved = r.resolved /\ ReleasedRow(r, e).rated = r.rated
           /\ ReleasedRow(r, e).status = r.status \/ (r.status \in Open /\ ReleasedRow(r, e).status = "NEW")
BY DEF Row, ReleasedRow

\* One row is written, the others stay.
LEMMA OneRow ==
    ASSUME TypeOK, NEW a \in Apps, NEW r, row' = [row EXCEPT ![a] = r]
    PROVE  row'[a] = r /\ \A b \in Apps : b # a => row'[b] = row[b]
BY DEF TypeOK

\* A read leaves a lone handler with a task that says what is the case.
LEMMA ReadIsCurrent ==
    ASSUME TypeOK, NEW p \in Handlers, NEW t \in Task, TakeUp(p, t)
    PROVE  Current(task'[p])
<1>1. t.app \in Apps
  BY DEF Task
<1>2. ASSUME NEW n, Continue(p, n), Current(n) PROVE Current(task'[p])
  BY <1>2 DEF Continue, TypeOK
<1>3. Current(Idle)
  BY DEF Current
<1>4. CASE StatusRead(p, t)
  <2> DEFINE r == row[t.app]
             n == [t EXCEPT !.seen = r.status, !.note = Posted(r, t),
                            !.pc = IF MustCount(r, t) THEN "status:count" ELSE "status:commit"]
  <2>1. /\ n.to = t.to /\ n.app = t.app /\ n.seen = r.status
        /\ n.pc \in {"status:count", "status:commit"}
    BY DEF Task
  <2>2. Return(p) \/ (life[t.app] = "filed" /\ ~Refused(r, t) /\ Continue(p, n))
    BY <1>4 DEF StatusRead
  <2>3. ~Refused(r, t) => t.to = r.status \/ t.to \in Allowed(r.status)
    BY DEF Refused
  <2> HIDE DEF n
  <2>4. life[t.app] = "filed" /\ ~Refused(r, t) => Current(n)
    BY <2>1, <2>3 DEF Current
  <2> QED BY <2>2, <2>4, <1>2, <1>3 DEF Return
<1>5. CASE AssignRead(p, t)
  <2> DEFINE n == [t EXCEPT !.pc = "assign:commit", !.seen = row[t.app].status]
  <2>1. n.app = t.app /\ n.seen = row[t.app].status /\ n.pc = "assign:commit"
    BY DEF Task
  <2>2. Return(p) \/ (life[t.app] = "filed" /\ Continue(p, n))
    BY <1>5 DEF AssignRead
  <2> HIDE DEF n
  <2>3. life[t.app] = "filed" => Current(n)
    BY <2>1 DEF Current
  <2> QED BY <2>2, <2>3, <1>2, <1>3 DEF Return
<1>6. CASE ReplyRead(p, t)
  <2> DEFINE n == [t EXCEPT !.pc = "reply:commit", !.seen = row[t.app].status]
  <2>1. n.app = t.app /\ n.seen = row[t.app].status /\ n.pc = "reply:commit"
    BY DEF Task
  <2>2. Return(p) \/ (life[t.app] = "filed" /\ Continue(p, n))
    BY <1>6 DEF ReplyRead
  <2> HIDE DEF n
  <2>3. life[t.app] = "filed" => Current(n)
    BY <2>1 DEF Current
  <2> QED BY <2>2, <2>3, <1>2, <1>3 DEF Return
<1>7. CASE RateRead(p, t)
  <2> DEFINE n == [t EXCEPT !.pc = "rate:commit", !.seen = "RESOLVED"]
  <2>1. n.app = t.app /\ n.seen = "RESOLVED" /\ n.pc = "rate:commit"
    BY DEF Task
  <2>2. Return(p) \/ (life[t.app] = "filed" /\ row[t.app].status = "RESOLVED" /\ Continue(p, n))
    BY <1>7 DEF RateRead
  <2> HIDE DEF n
  <2>3. life[t.app] = "filed" /\ row[t.app].status = "RESOLVED" => Current(n)
    BY <2>1 DEF Current
  <2> QED BY <2>2, <2>3, <1>2, <1>3 DEF Return
<1>8. CASE ReopenRead(p, t)
  <2> DEFINE n == [t EXCEPT !.pc = "reopen:commit", !.seen = "RESOLVED"]
  <2>1. n.app = t.app /\ n.seen = "RESOLVED" /\ n.pc = "reopen:commit"
    BY DEF Task
  <2>2. Return(p) \/ (life[t.app] = "filed" /\ MayReopen(row[t.app]) /\ Continue(p, n))
    BY <1>8 DEF ReopenRead
  <2> HIDE DEF n
  <2>3. life[t.app] = "filed" /\ MayReopen(row[t.app]) => Current(n)
    BY <2>1 DEF Current, MayReopen
  <2> QED BY <2>2, <2>3, <1>2, <1>3 DEF Return
<1>9. CASE AdminPatch(p, t)
  <2> DEFINE n1 == [t EXCEPT !.pc = "assign"]
             n2 == [t EXCEPT !.pc = "unassign:commit"]
             n3 == [t EXCEPT !.pc = "current", !.emp = Keep, !.seen = "NEW"]
  <2>1. /\ n1.app = t.app /\ n1.pc = "assign" /\ n2.app = t.app /\ n2.pc = "unassign:commit"
        /\ n3.app = t.app /\ n3.pc = "current"
    BY DEF Task
  <2>2. \/ Return(p) \/ Continue(p, Idle)
        \/ life[t.app] = "filed" /\ (Continue(p, n1) \/ Continue(p, n2) \/ Continue(p, n3))
    BY <1>9 DEF AdminPatch, AfterAssign
  <2> HIDE DEF n1, n2, n3
  <2>3. life[t.app] = "filed" => Current(n1) /\ Current(n2) /\ Current(n3)
    BY <2>1 DEF Current, Judged
  <2> QED BY <2>2, <2>3, <1>2, <1>3 DEF Return
<1> QED BY <1>4, <1>5, <1>6, <1>7, <1>8, <1>9 DEF TakeUp
-----------------------------------------------------------------------------
(***************************************************************************)
(* The commits: what a lone handler writes is judged by what is the case.  *)
(***************************************************************************)
Goal == (\A b \in Apps : Good(b)) /\ (\A q \in Handlers : Current(task[q]))'

LEMMA StatusCommitSerial ==
    ASSUME OneAtATime, TypeOK, Targeted, AnswerInv, SerialInv, NEW p \in Handlers, StatusCommit(p)
    PROVE  Goal
<1> DEFINE t == task[p]
<1>0. PICK a \in Apps : a = task[p].app
  BY DEF StatusCommit, At, TypeOK, Idle, Task
<1>1. t \in Task /\ t.to \in Statuses /\ t # Idle /\ t.pc = "status:commit"
  BY DEF StatusCommit, At, TypeOK, Idle, Targeted, ToStatus, Task
<1>2. /\ life[a] = "filed" /\ t.seen = row[a].status /\ Fine(a) /\ row[a] \in Row
      /\ t.to # t.seen => t.to \in Allowed(t.seen)
  BY <1>0, <1>1 DEF SerialInv, Current, Judged, TypeOK
<1>3. (\A q \in Handlers : Current(task[q]))'
  BY ReturnsEmpty, NothingInHand DEF StatusCommit
<1>4. CASE ~Writable(t)
  BY <1>3, <1>4, QuietIsFine DEF StatusCommit, Quiet, Goal, Good, SerialInv
<1>5. CASE Writable(t)
  <2> DEFINE r == StatusRow(row[a], t)
  <2>1. row'[a] = r /\ \A b \in Apps : b # a => row'[b] = row[b]
    BY <1>0, <1>1, <1>5, OneRow DEF StatusCommit
  <2>2. /\ answered'[a] = (answered[a] \/ (t.to # t.seen /\ t.note # "absent"))
        /\ audit'[a] = IF t.to # t.seen THEN t.to ELSE audit[a]
        /\ \A b \in Apps : b # a => answered'[b] = answered[b] /\ audit'[b] = audit[b]
    BY <1>0, <1>1, <1>5 DEF StatusCommit, TypeOK
  <2>3. /\ r.status = t.to /\ r.reopens = row[a].reopens
        /\ r.rated = IF t.seen = "RESOLVED" /\ t.to = "IN_PROGRESS" THEN FALSE ELSE row[a].rated
        /\ r.resolved = IF t.to # t.seen /\ t.to = "RESOLVED" THEN "recent"
                        ELSE IF t.to # t.seen /\ t.to = "IN_PROGRESS" THEN "unset" ELSE row[a].resolved
    BY <1>0, <1>1, <1>2, StatusRowFields, StatusRowMarks
  <2> HIDE DEF r
  <2>4. t.to \in Closed => answered'[a]
    BY <1>0, <1>1, <1>2, <2>2 DEF AnswerInv, Backed
  <2>5. Good(a)
    <3>1. CASE t.to = t.seen
      <4>1. Quiet(a)
        BY <1>2, <2>1, <2>2, <2>3, <3>1 DEF Quiet
      <4> QED BY <1>0, <1>1, <1>2, <4>1, QuietIsFine DEF Good
    <3>2. CASE t.to # t.seen
      <4>1. row'[a].status = t.to /\ row'[a].reopens = row[a].reopens /\ audit'[a] = t.to
        BY <2>1, <2>2, <2>3, <3>2
      <4>2. \/ t.seen = "NEW" /\ t.to \in {"IN_PROGRESS", "RESOLVED", "REJECTED"}
            \/ t.seen = "IN_PROGRESS" /\ t.to \in {"RESOLVED", "REJECTED"}
            \/ t.seen = "RESOLVED" /\ t.to = "IN_PROGRESS"
        BY <1>0, <1>1, <1>2, <3>2 DEF Allowed, Task
      <4>3. row'[a].resolved # "unset" <=> t.to = "RESOLVED"
        BY <1>2, <2>1, <2>3, <3>2, <4>2 DEF Fine
      <4>4. row'[a].rated => t.to = "RESOLVED"
        BY <1>2, <2>1, <2>3, <3>2, <4>2 DEF Fine
      <4>5. Fine(a)'
        BY <1>2, <4>1, <4>3, <4>4 DEF Fine
      <4>6. Moves(a)
        BY <1>2, <2>2, <2>4, <4>1, <4>2 DEF Moves
      <4> QED BY <4>5, <4>6 DEF Good
    <3> QED BY <3>1, <3>2
  <2>6. \A b \in Apps : b # a => Quiet(b)
    BY <2>1, <2>2 DEF Quiet
  <2> QED BY <1>0, <1>1, <1>3, <2>5, <2>6, MostAreQuiet DEF Goal
<1> QED BY <1>4, <1>5

LEMMA AssignCommitSerial ==
    ASSUME OneAtATime, TypeOK, SerialInv, NEW p \in Handlers, AssignCommit(p)
    PROVE  Goal
<1> DEFINE t == task[p]
<1>0. PICK a \in Apps : a = task[p].app
  BY DEF AssignCommit, At, TypeOK, Idle, Task
<1>1. t \in Task /\ t # Idle /\ t.pc = "assign:commit"
  BY DEF AssignCommit, At, TypeOK, Idle, Task
<1>2. life[a] = "filed" /\ t.seen = row[a].status /\ Fine(a) /\ row[a] \in Row
  BY <1>0, <1>1 DEF SerialInv, Current, Judged, TypeOK
<1>3. (\A q \in Handlers : Current(task[q]))'
  <2> DEFINE n == [t EXCEPT !.pc = "current", !.emp = Keep, !.seen = "NEW"]
  <2>1. n.app = a /\ n.pc = "current"
    BY <1>0, <1>1 DEF Task
  <2>2. task'[p] = Idle \/ task'[p] = n
    BY DEF AssignCommit, AfterAssign, Return, Continue, TypeOK
  <2>3. UNCHANGED life
    BY DEF AssignCommit
  <2> HIDE DEF n
  <2>4. Handlers = {p}
    BY DEF OneAtATime
  <2> QED BY <1>0, <1>2, <2>1, <2>2, <2>3, <2>4 DEF Current, Judged
<1>4. CASE ~Writable(t)
  BY <1>3, <1>4, QuietIsFine DEF AssignCommit, Quiet, Goal, Good, SerialInv
<1>5. CASE Writable(t)
  <2> DEFINE r == AssignedRow(row[a], t)
  <2>1. row'[a] = r /\ \A b \in Apps : b # a => row'[b] = row[b]
    BY <1>0, <1>1, <1>5, OneRow DEF AssignCommit
  <2>2. /\ audit'[a] = IF Starts(t) THEN "IN_PROGRESS" ELSE audit[a]
        /\ \A b \in Apps : b # a => audit'[b] = audit[b]
        /\ UNCHANGED answered
    BY <1>0, <1>1, <1>5 DEF AssignCommit, TypeOK
  <2>3. /\ r.status = IF Starts(t) THEN "IN_PROGRESS" ELSE row[a].status
        /\ r.reopens = row[a].reopens /\ r.resolved = row[a].resolved /\ r.rated = row[a].rated
    BY <1>0, <1>1, <1>2, AssignedRowFields, AssignedRowMarks
  <2> HIDE DEF r
  <2>4. Good(a)
    BY <1>0, <1>1, <1>2, <2>1, <2>2, <2>3 DEF Good, Fine, Moves, Starts
  <2>5. \A b \in Apps : b # a => Quiet(b)
    BY <2>1, <2>2 DEF Quiet
  <2> QED BY <1>0, <1>1, <1>3, <2>4, <2>5, MostAreQuiet DEF Goal
<1> QED BY <1>4, <1>5

LEMMA UnassignCommitSerial ==
    ASSUME OneAtATime, TypeOK, SerialInv, NEW p \in Handlers, UnassignCommit(p)
    PROVE  Goal
<1> DEFINE t == task[p]
<1>0. PICK a \in Apps : a = task[p].app
  BY DEF UnassignCommit, At, TypeOK, Idle, Task
<1>1. t \in Task /\ t # Idle
  BY DEF UnassignCommit, At, TypeOK, Idle, Task
<1>2. life[a] = "filed" /\ row[a] \in Row
  BY <1>0, <1>1 DEF SerialInv, Current, TypeOK
<1>3. (\A q \in Handlers : Current(task[q]))'
  <2> DEFINE n == [t EXCEPT !.pc = "current", !.emp = Keep, !.seen = "NEW"]
  <2>1. n.app = a /\ n.pc = "current"
    BY <1>0, <1>1 DEF Task
  <2>2. task'[p] = Idle \/ task'[p] = n
    BY DEF UnassignCommit, AfterAssign, Return, Continue, TypeOK
  <2>3. UNCHANGED life
    BY DEF UnassignCommit
  <2> HIDE DEF n
  <2>4. Handlers = {p}
    BY DEF OneAtATime
  <2> QED BY <1>0, <1>2, <2>1, <2>2, <2>3, <2>4 DEF Current, Judged
<1>4. row' = [row EXCEPT ![a] = [row[a] EXCEPT !.assignee = Null]] /\ UNCHANGED <<answered, audit>>
  BY <1>0, <1>2 DEF UnassignCommit
<1>5. \A b \in Apps : Quiet(b)
  <2>1. LET r == [row[a] EXCEPT !.assignee = Null] IN
        /\ r.status = row[a].status /\ r.reopens = row[a].reopens
        /\ r.resolved = row[a].resolved /\ r.rated = row[a].rated
    BY <1>2 DEF Row
  <2> QED BY <1>0, <1>1, <1>4, <2>1, OneRow DEF Quiet
<1> QED BY <1>3, <1>5, QuietIsFine DEF Goal, Good, SerialInv

LEMMA ReplyCommitSerial ==
    ASSUME OneAtATime, TypeOK, SerialInv, NEW p \in Handlers, ReplyCommit(p)
    PROVE  Goal
<1> DEFINE t == task[p]
<1>0. PICK a \in Apps : a = task[p].app
  BY DEF ReplyCommit, At, TypeOK, Idle, Task
<1> DEFINE r == RepliedRow(row[a], t)
<1>1. t \in Task /\ t # Idle /\ t.pc = "reply:commit"
  BY DEF ReplyCommit, At, TypeOK, Idle, Task
<1>2. life[a] = "filed" /\ t.seen = row[a].status /\ Fine(a) /\ row[a] \in Row
  BY <1>0, <1>1 DEF SerialInv, Current, Judged, TypeOK
<1>3. (\A q \in Handlers : Current(task[q]))'
  BY ReturnsEmpty, NothingInHand DEF ReplyCommit
<1>4. row'[a] = r /\ \A b \in Apps : b # a => row'[b] = row[b]
  BY <1>0, <1>1, <1>2, OneRow DEF ReplyCommit
<1>5. /\ answered'[a] /\ audit'[a] = Replied(audit[a], t)
      /\ \A b \in Apps : b # a => answered'[b] = answered[b] /\ audit'[b] = audit[b]
  BY <1>0, <1>1, <1>2 DEF ReplyCommit, TypeOK
<1>6. /\ r.status = Replied(row[a].status, t) /\ r.rated = row[a].rated
      /\ r.resolved = IF Resolves(t) THEN "recent" ELSE row[a].resolved
      /\ r.reopens = row[a].reopens
  BY <1>0, <1>1, <1>2, RepliedRowFields, RepliedRowMarks
<1> HIDE DEF r
<1>7. Good(a)
  <2>1. CASE Resolves(t)
    BY <1>2, <1>4, <1>5, <1>6, <2>1 DEF Good, Fine, Moves, Replied, Resolves
  <2>2. CASE ~Resolves(t) /\ t.seen = "NEW"
    BY <1>2, <1>4, <1>5, <1>6, <2>2 DEF Good, Fine, Moves, Replied
  <2>3. CASE ~Resolves(t) /\ t.seen # "NEW"
    BY <1>2, <1>4, <1>5, <1>6, <2>3 DEF Good, Fine, Moves, Replied
  <2> QED BY <2>1, <2>2, <2>3
<1>8. \A b \in Apps : b # a => Quiet(b)
  BY <1>4, <1>5 DEF Quiet
<1> QED BY <1>0, <1>1, <1>3, <1>7, <1>8, MostAreQuiet DEF Goal

LEMMA RateCommitSerial ==
    ASSUME OneAtATime, TypeOK, SerialInv, NEW p \in Handlers, RateCommit(p)
    PROVE  Goal
<1> DEFINE t == task[p]
<1>0. PICK a \in Apps : a = task[p].app
  BY DEF RateCommit, At, TypeOK, Idle, Task
<1> DEFINE r == [row[a] EXCEPT !.rated = TRUE]
<1>1. t \in Task /\ t # Idle /\ t.pc = "rate:commit"
  BY DEF RateCommit, At, TypeOK, Idle, Task
<1>2. life[a] = "filed" /\ row[a].status = "RESOLVED" /\ Fine(a) /\ row[a] \in Row
  BY <1>0, <1>1 DEF SerialInv, Current, Judged, TypeOK
<1>3. (\A q \in Handlers : Current(task[q]))'
  BY ReturnsEmpty, NothingInHand DEF RateCommit
<1>4. row'[a] = r /\ \A b \in Apps : b # a => row'[b] = row[b]
  BY <1>0, <1>1, <1>2, OneRow DEF RateCommit
<1>5. UNCHANGED <<answered, audit>>
  BY DEF RateCommit
<1>6. r.status = row[a].status /\ r.resolved = row[a].resolved /\ r.reopens = row[a].reopens
  BY <1>2 DEF Row
<1> HIDE DEF r
<1>7. Good(a)
  BY <1>2, <1>4, <1>5, <1>6 DEF Good, Fine, Moves
<1>8. \A b \in Apps : b # a => Quiet(b)
  BY <1>4, <1>5 DEF Quiet
<1> QED BY <1>0, <1>1, <1>3, <1>7, <1>8, MostAreQuiet DEF Goal

LEMMA ReopenCommitSerial ==
    ASSUME OneAtATime, TypeOK, SerialInv, NEW p \in Handlers, ReopenCommit(p)
    PROVE  Goal
<1> DEFINE t == task[p]
<1>0. PICK a \in Apps : a = task[p].app
  BY DEF ReopenCommit, At, TypeOK, Idle, Task
<1> DEFINE r == ReopenedRow(row[a])
<1>1. t \in Task /\ t # Idle /\ t.pc = "reopen:commit"
  BY DEF ReopenCommit, At, TypeOK, Idle, Task
<1>2. /\ life[a] = "filed" /\ row[a].status = "RESOLVED" /\ Fine(a) /\ row[a] \in Row
      /\ row[a].reopens < MaxReopens /\ row[a].reopens \in Nat
  BY <1>0, <1>1 DEF SerialInv, Current, Judged, TypeOK, Row
<1>3. (\A q \in Handlers : Current(task[q]))'
  BY ReturnsEmpty, NothingInHand DEF ReopenCommit
<1>4. row'[a] = r /\ \A b \in Apps : b # a => row'[b] = row[b]
  BY <1>0, <1>1, <1>2, OneRow DEF ReopenCommit
<1>5. /\ UNCHANGED answered /\ audit'[a] = "IN_PROGRESS"
      /\ \A b \in Apps : b # a => audit'[b] = audit[b]
  BY <1>0, <1>1, <1>2 DEF ReopenCommit, TypeOK
<1>6. r.status = "IN_PROGRESS" /\ r.reopens = row[a].reopens + 1 /\ r.resolved = "unset" /\ r.rated = FALSE
  BY <1>2, ReopenedRowFields, ReopenedRowMarks
<1> HIDE DEF r
<1>7. Good(a)
  BY <1>2, <1>4, <1>5, <1>6 DEF Good, Fine, Moves
<1>8. \A b \in Apps : b # a => Quiet(b)
  BY <1>4, <1>5 DEF Quiet
<1> QED BY <1>0, <1>1, <1>3, <1>7, <1>8, MostAreQuiet DEF Goal
-----------------------------------------------------------------------------
(***************************************************************************)
(* The other steps.                                                        *)
(***************************************************************************)

\* A step that is quiet about every murojaat in the table, and only a lone
\* handler's task may have changed.
LEMMA QuietStep ==
    ASSUME OneAtATime, SerialInv, NEW p \in Handlers, \A b \in Apps : Quiet(b), UNCHANGED life,
           \/ UNCHANGED task
           \/ task'[p] = Idle
           \/ UNCHANGED row /\ Current(task'[p]),
           TypeOK
    PROVE  Goal
<1>1. Handlers = {p}
  BY DEF OneAtATime
<1>2. task[p] # Idle => task[p].app \in Apps
  BY DEF TypeOK, Task
<1>3. Current(task[p])'
  <2>1. CASE UNCHANGED task
    BY <1>2, <2>1 DEF SerialInv, Current, Quiet, Judged
  <2>2. CASE task'[p] = Idle
    BY <2>2 DEF Current
  <2>3. CASE UNCHANGED row /\ Current(task'[p])
    BY <2>3 DEF Current
  <2> QED BY <2>1, <2>2, <2>3
<1> QED BY <1>1, <1>3, QuietIsFine DEF Goal, Good, SerialInv

LEMMA UnchangedIsQuiet ==
    ASSUME NEW a \in Apps, row'[a] = row[a], audit'[a] = audit[a], answered[a] => answered'[a]
    PROVE  Quiet(a)
BY DEF Quiet

LEMMA TakeUpSerial ==
    ASSUME OneAtATime, TypeOK, SerialInv, NEW p \in Handlers, NEW t \in Task, TakeUp(p, t)
    PROVE  Goal
<1>1. UNCHANGED <<life, row, answered, audit>>
  BY ReadKeepsRows
<1> QED BY <1>1, ReadIsCurrent, UnchangedIsQuiet, QuietStep

LEMMA NestedSerial ==
    ASSUME OneAtATime, TypeOK, SerialInv, NEW p \in Handlers, StatusCount(p) \/ AdminCurrent(p)
    PROVE  Goal
<1> DEFINE n1 == [task[p] EXCEPT !.pc = "status:commit"]
           n2 == [task[p] EXCEPT !.pc = "status"]
<1>1. /\ UNCHANGED <<life, row, answered, audit>> /\ task[p] \in Task /\ Current(task[p])
      /\ task[p] # Idle
  BY DEF StatusCount, AdminCurrent, At, SameRow, TypeOK, Idle, SerialInv
<1>2. /\ n1.app = task[p].app /\ n1.pc = "status:commit" /\ n1.seen = task[p].seen /\ n1.to = task[p].to
      /\ n2.app = task[p].app /\ n2.pc = "status"
  BY <1>1 DEF Task
<1>3. \/ task'[p] = Idle
      \/ task[p].pc = "status:count" /\ task'[p] = n1
      \/ task'[p] = n2
  BY DEF StatusCount, AdminCurrent, At, Return, Continue, TypeOK
<1> HIDE DEF n1, n2
<1>4. Current(task'[p])
  BY <1>1, <1>2, <1>3 DEF Current, Judged
<1> QED BY <1>1, <1>4, UnchangedIsQuiet, QuietStep

LEMMA TableSerial ==
    ASSUME OneAtATime, TypeOK, SerialInv, NEW p \in Handlers, NEW a \in Apps,
           File(p, a) \/ StaffMessage(p, a) \/ Remove(p, a)
    PROVE  Goal
<1>1. task'[p] = Idle
  BY IdleIsIdle DEF File, StaffMessage, Remove
<1>2. (\A q \in Handlers : Current(task[q]))'
  BY <1>1, NothingInHand
<1>3. CASE File(p, a) \/ StaffMessage(p, a)
  <2>1. UNCHANGED <<row, audit>> /\ \A b \in Apps : answered[b] => answered'[b]
    BY <1>3 DEF File, StaffMessage, TypeOK
  <2> QED BY <1>2, <2>1, UnchangedIsQuiet, QuietIsFine DEF Goal, Good, SerialInv
<1>4. CASE Remove(p, a)
  <2>1. /\ life'[a] = "deleted" /\ row'[a] = NewRow /\ audit'[a] = "NEW"
        /\ \A b \in Apps : b # a => row'[b] = row[b] /\ audit'[b] = audit[b] /\ answered'[b] = answered[b]
    BY <1>4 DEF Remove, TypeOK
  <2>2. Good(a)
    BY <2>1 DEF Good, Fine, NewRow
  <2> QED BY <1>2, <2>1, <2>2, UnchangedIsQuiet, MostAreQuiet DEF Goal
<1> QED BY <1>3, <1>4

\* The release of an archived employee's murojaats moves them to NEW, unmarked.
LEMMA StaffSerial ==
    ASSUME OneAtATime, TypeOK, SerialInv, NEW p \in Handlers, NEW e \in Emps,
           Archive(p, e) \/ Restore(p, e) \/ Purge(p, e)
    PROVE  Goal
<1>1. task'[p] = Idle /\ UNCHANGED <<life, answered, audit>>
  BY IdleIsIdle DEF Archive, Restore, Purge
<1>2. (\A q \in Handlers : Current(task[q]))'
  BY <1>1, NothingInHand
<1>3. ASSUME NEW b \in Apps PROVE Good(b)
  <2>1. row[b] \in Row /\ Fine(b)
    BY DEF TypeOK, SerialInv
  <2>2. CASE row'[b] = row[b]
    BY <1>1, <2>1, <2>2, UnchangedIsQuiet, QuietIsFine DEF Good
  <2>3. CASE row'[b] = [row[b] EXCEPT !.assignee = Null]
    <3>1. /\ row'[b].status = row[b].status /\ row'[b].reopens = row[b].reopens
          /\ row'[b].resolved = row[b].resolved /\ row'[b].rated = row[b].rated
      BY <2>1, <2>3 DEF Row
    <3> QED BY <1>1, <2>1, <3>1, QuietIsFine DEF Good, Quiet
  <2>4. CASE row'[b] = ReleasedRow(row[b], e)
    <3>1. /\ row'[b].resolved = row[b].resolved /\ row'[b].rated = row[b].rated
          /\ row'[b].reopens = row[b].reopens
          /\ \/ row'[b].status = row[b].status
             \/ row[b].status \in Open /\ row'[b].status = "NEW"
      BY <2>1, <2>4, ReleasedRowFields, ReleasedRowMarks
    <3> QED BY <1>1, <2>1, <3>1 DEF Good, Fine, Moves
  <2> QED BY <2>2, <2>3, <2>4 DEF Archive, Restore, Purge
<1> QED BY <1>2, <1>3 DEF Goal

LEMMA ClockSerial ==
    ASSUME OneAtATime, TypeOK, SerialInv,
           \/ SweepRead \/ Restart
           \/ \E a \in Apps : SweepUpdate(a) \/ DeadlinePasses(a) \/ WindowPasses(a)
    PROVE  Goal
<1>0. PICK p : p \in Handlers
  BY DEF OneAtATime
<1>1. UNCHANGED <<life, answered, audit>> /\ (UNCHANGED task \/ task'[p] = Idle)
  BY <1>0 DEF SweepRead, Restart, SweepUpdate, DeadlinePasses, WindowPasses
<1>2. ASSUME NEW a \in Apps
      PROVE  LET r == EscalatedRow(row[a])
                 l == [row[a] EXCEPT !.overdue = TRUE]
                 w == [row[a] EXCEPT !.resolved = "old"]
             IN
             /\ r.status = row[a].status /\ r.reopens = row[a].reopens
             /\ r.resolved = row[a].resolved /\ r.rated = row[a].rated
             /\ l.status = row[a].status /\ l.reopens = row[a].reopens
             /\ l.resolved = row[a].resolved /\ l.rated = row[a].rated
             /\ w.status = row[a].status /\ w.reopens = row[a].reopens
             /\ w.resolved = "old" /\ w.rated = row[a].rated
  BY DEF EscalatedRow, TypeOK, Row
<1>3. ASSUME NEW a \in Apps, NEW r, row' = [row EXCEPT ![a] = r],
             r.status = row[a].status, r.reopens = row[a].reopens, r.rated = row[a].rated,
             r.resolved = "unset" <=> row[a].resolved = "unset"
      PROVE  \A b \in Apps : Quiet(b)
  BY <1>1, <1>3, OneRow DEF Quiet
<1>4. \A b \in Apps : Quiet(b)
  <2>1. CASE UNCHANGED row
    BY <1>1, <2>1, UnchangedIsQuiet
  <2>2. ASSUME NEW a \in Apps, row' = [row EXCEPT ![a] = EscalatedRow(row[a])]
        PROVE  \A b \in Apps : Quiet(b)
    BY <1>2, <1>3, <2>2
  <2>3. ASSUME NEW a \in Apps, DeadlinePasses(a) PROVE \A b \in Apps : Quiet(b)
    <3>1. row' = [row EXCEPT ![a] = [row[a] EXCEPT !.overdue = TRUE]]
      BY <2>3 DEF DeadlinePasses
    <3> QED BY <1>2, <1>3, <3>1
  <2>4. ASSUME NEW a \in Apps, WindowPasses(a) PROVE \A b \in Apps : Quiet(b)
    <3>1. row' = [row EXCEPT ![a] = [row[a] EXCEPT !.resolved = "old"]] /\ row[a].resolved # "unset"
      BY <2>4 DEF WindowPasses
    <3> QED BY <1>2, <1>3, <3>1
  <2>5. CASE Restart /\ ~UNCHANGED row
    <3>1. PICK a \in sweep : row' = [row EXCEPT ![a] = EscalatedRow(@)]
      BY <2>5 DEF Restart
    <3>2. a \in Apps
      BY DEF TypeOK
    <3> QED BY <2>2, <3>1, <3>2
  <2> QED BY <2>1, <2>2, <2>3, <2>4, <2>5 DEF SweepRead, Restart, SweepUpdate
<1> QED BY <1>0, <1>1, <1>4, QuietStep

LEMMA SerialStep ==
    ASSUME OneAtATime, TypeOK, Targeted, AnswerInv, SerialInv, Next
    PROVE  Goal
BY StepCases, TakeUpSerial, NestedSerial, StatusCommitSerial, AssignCommitSerial,
   UnassignCommitSerial, ReplyCommitSerial, RateCommitSerial, ReopenCommitSerial,
   TableSerial, StaffSerial, ClockSerial

SafeInv == TypeOK /\ Targeted /\ AnswerInv /\ SerialInv

LEMMA SafeInitially == Init => SafeInv
<1>1. Init => AnswerInv
  BY DEF Init, AnswerInv, ClosedHasAnswer, Backed, Known, Blank, NewRow, Idle
<1>2. Init => SerialInv
  BY DEF Init, SerialInv, Fine, Current, NewRow
<1> QED BY <1>1, <1>2, TypesInitially DEF SafeInv

LEMMA SafeKept ==
    ASSUME OneAtATime, SafeInv, [Next]_vars
    PROVE  SafeInv'
<1>1. TypeOK' /\ Targeted'
  BY TypesKept DEF SafeInv
<1>2. AnswerInv'
  BY <1>1, AnswerStep DEF SafeInv
<1>3. SerialInv'
  <2>1. CASE Next
    BY <2>1, SerialStep DEF SafeInv, SerialInv, Goal, Good
  <2>2. CASE UNCHANGED vars
    BY <2>2 DEF vars, SafeInv, SerialInv, Fine, Current
  <2> QED BY <2>1, <2>2
<1> QED BY <1>1, <1>2, <1>3 DEF SafeInv

LEMMA SafeAlways == OneAtATime => (Spec => []SafeInv)
<1>1. OneAtATime /\ SafeInv /\ [Next]_vars => SafeInv'
  BY SafeKept
<1>2. SUFFICES ASSUME OneAtATime PROVE Spec => []SafeInv
  OBVIOUS
<1>3. SafeInv /\ [Next]_vars => SafeInv'
  BY <1>1, <1>2
<1> QED BY <1>3, SafeInitially, PTL DEF Spec

\* Served one at a time, resolvedAt and the rating follow the status: updateStatus,
\* reply, reopen and rate set and clear them together.
THEOREM MarksFollow == OneAtATime => (Spec => []MarksFollowStatus)
<1>1. SafeInv => MarksFollowStatus
  BY DEF SafeInv, SerialInv, Fine, MarksFollowStatus
<1> QED BY <1>1, SafeAlways, PTL

\* ... the events tell the status, but for the release of an archived employee's ...
THEOREM AuditTells == OneAtATime => (Spec => []AuditTellsStatus)
<1>1. SafeInv => AuditTellsStatus
  BY DEF SafeInv, SerialInv, Fine, AuditTellsStatus
<1> QED BY <1>1, SafeAlways, PTL

\* ... and every murojaat goes only through what MurojaatLifecycle promises the
\* citizen, until it is deleted.
THEOREM PromiseKept == OneAtATime => (Spec => KeepsPromise)
<1>1. Init => \A a \in Apps : Promise(a)!Init
  BY DEF Init, NewRow, Promise!Init
<1>2. ASSUME OneAtATime, SafeInv, SafeInv', Next
      PROVE  \A a \in Apps : life'[a] = "deleted" \/ [Promise(a)!Next]_(Promise(a)!vars)
  BY <1>2, SerialStep, MovesKeepPromise DEF SafeInv, Goal, Good
<1>3. SUFFICES ASSUME OneAtATime PROVE Spec => KeepsPromise
  OBVIOUS
<1>4. SafeInv /\ SafeInv' /\ [Next]_vars
      => [\A a \in Apps : life'[a] = "deleted" \/ [Promise(a)!Next]_(Promise(a)!vars)]_vars
  BY <1>2, <1>3
<1>5. Spec => []SafeInv
  BY <1>3, SafeAlways
<1> QED BY <1>1, <1>4, <1>5, PTL DEF Spec, KeepsPromise

HIDE ConstantsAssumption DEF Statuses, Open, Closed, NoStatus
-----------------------------------------------------------------------------
(***************************************************************************)
(* The conversation.  NewsIsShown is inductive: what archives it forgets   *)
(* the news, what makes news is followed by bringing it back.              *)
(***************************************************************************)
LEMMA JobKinds ==
    ASSUME NEW j \in C!Job \cup {C!Idle}
    PROVE  /\ j.step = "idle" => j = C!Idle
           /\ j.step \in C!Writing => j \in [step : C!Writing, msg : Msgs, from : C!People,
                                             born : {"sent", "read"}]
           /\ j.step \in {"archive:ensure", "archive:upsert", "archive"} =>
                 j \in [step : {"archive:ensure", "archive:upsert", "archive"}, flag : BOOLEAN]
           /\ j.step \in {"clear:ensure", "clear:archive", "clear:delete", "drop"} =>
                 j \in [step : {"clear:ensure", "clear:archive", "clear:delete", "drop"}]
           /\ j.step \in {"read:ensure", "read"} =>
                 j \in [step : {"read:ensure", "read"}, by : C!People]
           /\ j.step \in {"edit", "delete"} => j \in [step : {"edit", "delete"}, msg : Msgs]
  BY DEF C!Job, C!Idle, C!Writing

LEMMA JobGoes ==
    ASSUME C!TypeOK, NEW w \in Workers, NEW step,
           \/ job[w].step \in C!Writing /\ step \in C!Writing
           \/ /\ job[w].step \in {"archive:ensure", "archive:upsert", "archive"}
              /\ step \in {"archive:ensure", "archive:upsert", "archive"}
           \/ /\ job[w].step \in {"clear:ensure", "clear:archive", "clear:delete", "drop"}
              /\ step \in {"clear:ensure", "clear:archive", "clear:delete", "drop"}
           \/ job[w].step \in {"read:ensure", "read"} /\ step \in {"read:ensure", "read"},
           C!Goes(w, step)
    PROVE  job' \in [Workers -> C!Job \cup {C!Idle}]
  <1>1. job[w] \in C!Job \cup {C!Idle}
    BY DEF C!TypeOK
  <1>2. [job[w] EXCEPT !.step = step] \in C!Job
    BY <1>1, JobKinds DEF C!Job, C!Writing
  <1> QED
    BY <1>2 DEF C!TypeOK, C!Goes

LEMMA JobEnds ==
    ASSUME C!TypeOK, NEW w \in Workers, C!Ends(w)
    PROVE  job' \in [Workers -> C!Job \cup {C!Idle}]
  BY DEF C!TypeOK, C!Ends

\* Whoever was to bring the conversation back still is.
Holds(w) == \A v \in Workers : v # w => job'[v] = job[v]

LEMMA JobsOfOthers ==
    ASSUME C!TypeOK, NEW w \in Workers,
           C!Ends(w) \/ (\E step : C!Goes(w, step)) \/ (\E j : C!Takes(w, j))
    PROVE  Holds(w)
  BY DEF C!TypeOK, C!Ends, C!Goes, C!Takes, Holds

LEMMA ArriveKeeps ==
    ASSUME C!TypeOK, NEW w \in Workers, C!Arrive(w)
    PROVE  C!TypeOK' /\ (C!NewsIsShown => C!NewsIsShown')
  <1>1. PICK j \in C!Job : C!Takes(w, j)
    BY DEF C!Arrive, C!Job, C!Writing, C!People, C!TypeOK, C!Present
  <1>2. UNCHANGED <<there, archived, state, from, edits, news>>
    BY DEF C!Arrive
  <1>3. C!TypeOK'
    BY <1>1, <1>2 DEF C!TypeOK, C!Takes
  <1>4. ~C!At(w, "unarchive")
    BY <1>1 DEF C!Takes, C!At, C!Idle
  <1>5. Holds(w)
    BY <1>1, JobsOfOthers
  <1> QED
    BY <1>2, <1>3, <1>4, <1>5 DEF C!NewsIsShown, C!Present, C!At, Holds

LEMMA ChatTypes ==
    ASSUME C!TypeOK, [C!Next]_(C!vars)
    PROVE  C!TypeOK'
  <1>1. CASE UNCHANGED C!vars
    BY <1>1 DEF C!vars, C!TypeOK, C!Job, C!Idle
  <1>2. CASE C!OpenDirect
    BY <1>2 DEF C!OpenDirect, C!TypeOK
  <1>3. ASSUME NEW w \in Workers, C!Ensure(w) PROVE C!TypeOK'
    <2>1. job' \in [Workers -> C!Job \cup {C!Idle}]
      BY <1>3, JobGoes DEF C!Ensure, C!At, C!Writing
    <2> QED
      BY <1>3, <2>1 DEF C!Ensure, C!TypeOK
  <1>4. ASSUME NEW w \in Workers, C!Upsert(w) PROVE C!TypeOK'
    <2>1. job' \in [Workers -> C!Job \cup {C!Idle}]
      BY <1>4, JobGoes DEF C!Upsert, C!At, C!Writing
    <2> QED
      BY <1>4, <2>1 DEF C!Upsert, C!TypeOK
  <1>5. ASSUME NEW w \in Workers, C!Create(w) PROVE C!TypeOK'
    <2>1. job' \in [Workers -> C!Job \cup {C!Idle}]
      BY <1>5, JobGoes, JobEnds DEF C!Create, C!At, C!Writing
    <2>2. /\ job[w].msg \in Msgs /\ job[w].from \in C!People
          /\ job[w].born \in {"sent", "read"}
      BY <1>5, JobKinds DEF C!Create, C!At, C!Writing, C!TypeOK
    <2> QED
      BY <1>5, <2>1, <2>2, RecordsAssumption DEF C!Create, C!TypeOK
  <1>6. ASSUME NEW w \in Workers,
               \/ C!Unarchive(w) \/ C!Archive(w) \/ C!Edit(w)
        PROVE  C!TypeOK'
    <2>1. job' \in [Workers -> C!Job \cup {C!Idle}]
      BY <1>6, JobEnds DEF C!Unarchive, C!Archive, C!Edit
    <2>2. C!Archive(w) => job[w].flag \in BOOLEAN
      BY JobKinds DEF C!Archive, C!At, C!TypeOK
    <2>3. CASE C!Edit(w)
      <3>1. edits' \in [Msgs -> 0..MaxEdits]
        <4>1. \A n \in 0..MaxEdits : n < MaxEdits => n + 1 \in 0..MaxEdits
          BY RecordsAssumption
        <4> QED
          BY <2>3, <4>1 DEF C!Edit, C!TypeOK
      <3> QED
        BY <2>1, <2>3, <3>1 DEF C!Edit, C!TypeOK
    <2>4. CASE C!Unarchive(w) \/ C!Archive(w)
      BY <2>1, <2>2, <2>4 DEF C!Unarchive, C!Archive, C!TypeOK
    <2> QED
      BY <1>6, <2>3, <2>4
  <1>7. ASSUME NEW w \in Workers,
               C!ClearEnsure(w) \/ C!ClearArchive(w) \/ C!ReadEnsure(w)
        PROVE  C!TypeOK'
    <2>1. job' \in [Workers -> C!Job \cup {C!Idle}]
      BY <1>7, JobGoes, JobEnds DEF C!ClearEnsure, C!ClearArchive, C!ReadEnsure, C!At
    <2> QED
      BY <1>7, <2>1 DEF C!ClearEnsure, C!ClearArchive, C!ReadEnsure, C!TypeOK
  <1>8. ASSUME NEW w \in Workers,
               C!ClearDelete(w) \/ C!Drop(w) \/ C!MarkRead(w) \/ C!Delete(w)
        PROVE  C!TypeOK'
    <2>1. job' \in [Workers -> C!Job \cup {C!Idle}]
      BY <1>8, JobEnds DEF C!ClearDelete, C!Drop, C!MarkRead, C!Delete
    <2>2. /\ state' \in [Msgs -> {"none", "sent", "read", "deleted"}]
          /\ \A m \in Msgs : state'[m] = "none" <=> state[m] = "none"
      BY <1>8 DEF C!ClearDelete, C!Drop, C!MarkRead, C!Delete, C!Emptied, C!Present, C!UnreadBy,
         C!TypeOK
    <2> QED
      BY <1>8, <2>1, <2>2 DEF C!ClearDelete, C!Drop, C!MarkRead, C!Delete, C!TypeOK
  <1>9. ASSUME NEW w \in Workers, C!Arrive(w) PROVE C!TypeOK'
    BY <1>9, ArriveKeeps
  <1> QED
    BY <1>1, <1>2, <1>3, <1>4, <1>5, <1>6, <1>7, <1>8, <1>9 DEF C!Next

LEMMA NewsStep ==
    ASSUME C!TypeOK, C!NewsIsShown, [C!Next]_(C!vars)
    PROVE  C!NewsIsShown'
  <1> USE DEF C!NewsIsShown, C!At, Holds
  <1>1. CASE UNCHANGED C!vars
    BY <1>1 DEF C!vars, C!Present
  <1>2. CASE C!OpenDirect
    BY <1>2 DEF C!OpenDirect
  <1>3. ASSUME NEW w \in Workers, C!Ensure(w) \/ C!Upsert(w) PROVE C!NewsIsShown'
    <2>1. Holds(w)
      BY <1>3, JobsOfOthers DEF C!Ensure, C!Upsert
    <2>2. C!Present' = C!Present /\ news' = news
      BY <1>3 DEF C!Ensure, C!Upsert, C!Present
    <2>4. there' /\ archived' => there /\ archived
      BY <1>3, Zenon DEF C!Ensure, C!Upsert
    <2>3. ~C!At(w, "unarchive")
      BY <1>3 DEF C!Ensure, C!Upsert
    <2> QED
      BY <2>1, <2>2, <2>3, <2>4
  <1>4. ASSUME NEW w \in Workers, C!Create(w) PROVE C!NewsIsShown'
    <2>1. Holds(w)
      BY <1>4, JobsOfOthers DEF C!Create
    <2>2. CASE there
      <3>1. /\ news' = news \cup {job[w].msg} /\ there' = there /\ archived' = archived
            /\ C!Present' \subseteq C!Present \cup {job[w].msg}
        BY <1>4, <2>2 DEF C!Create, C!Present, C!TypeOK
      <3>2. job'[w].step = "unarchive" /\ job'[w].msg = job[w].msg
        <4>1. job[w].step = "create" /\ job[w] \in C!Job \cup {C!Idle}
          BY <1>4 DEF C!Create, C!TypeOK
        <4> QED
          BY <1>4, <2>2, <4>1, JobKinds DEF C!Create, C!Goes, C!Writing, C!TypeOK
      <3>3. ~C!At(w, "unarchive")
        BY <1>4 DEF C!Create
      <3> QED
        BY <2>1, <3>1, <3>2, <3>3
    <2>3. CASE ~there
      BY <1>4, <2>3 DEF C!Create
    <2> QED
      BY <2>2, <2>3
  <1>5. ASSUME NEW w \in Workers, C!Unarchive(w) PROVE C!NewsIsShown'
    BY <1>5 DEF C!Unarchive
  <1>6. ASSUME NEW w \in Workers, C!Archive(w) PROVE C!NewsIsShown'
    BY <1>6 DEF C!Archive
  <1>7. ASSUME NEW w \in Workers,
               \/ C!ClearEnsure(w) \/ C!ReadEnsure(w) \/ C!Edit(w)
               \/ C!ClearDelete(w) \/ C!MarkRead(w) \/ C!Delete(w)
        PROVE  C!NewsIsShown'
    <2>1. Holds(w)
      BY <1>7, JobsOfOthers DEF C!ClearEnsure, C!ReadEnsure, C!Edit, C!ClearDelete,
         C!MarkRead, C!Delete
    <2>2. C!Present' \subseteq C!Present
      BY <1>7 DEF C!ClearEnsure, C!ReadEnsure, C!Edit, C!ClearDelete, C!MarkRead, C!Delete,
         C!Present, C!Emptied, C!UnreadBy, C!TypeOK
    <2>3. news' = news /\ there' = there /\ archived' = archived /\ ~C!At(w, "unarchive")
      BY <1>7 DEF C!ClearEnsure, C!ReadEnsure, C!Edit, C!ClearDelete, C!MarkRead, C!Delete
    <2> QED
      BY <2>1, <2>2, <2>3
  <1>8. ASSUME NEW w \in Workers, C!ClearArchive(w) PROVE C!NewsIsShown'
    BY <1>8 DEF C!ClearArchive
  <1>9. ASSUME NEW w \in Workers, C!Drop(w) PROVE C!NewsIsShown'
    BY <1>9 DEF C!Drop
  <1>10. ASSUME NEW w \in Workers, C!Arrive(w) PROVE C!NewsIsShown'
    BY <1>10, ArriveKeeps
  <1> QED
    BY <1>1, <1>2, <1>3, <1>4, <1>5, <1>6, <1>7, <1>8, <1>9, <1>10 DEF C!Next

LEMMA ChatInit == C!Init => C!TypeOK /\ C!NewsIsShown
  <1>1. C!Init => C!TypeOK
    <2>1. 0 \in 0..MaxEdits
      BY RecordsAssumption
    <2>2. C!Init => edits \in [Msgs -> 0..MaxEdits]
      BY <2>1 DEF C!Init
    <2>3. C!Init => \A m \in Msgs : state[m] = "none" <=> from[m] = Null
      BY DEF C!Init
    <2>4. C!Init => state \in [Msgs -> {"none", "sent", "read", "deleted"}]
      BY DEF C!Init
    <2> QED
      BY <2>2, <2>3, <2>4 DEF C!Init, C!TypeOK
  <1>2. C!Init => C!NewsIsShown
    BY DEF C!Init, C!NewsIsShown
  <1> QED
    BY <1>1, <1>2
-----------------------------------------------------------------------------
(***************************************************************************)
(* The attendance.  ViewsAgree is about the rows of one day.  The first    *)
(* and the last of them by the hour exist, because there are finitely many *)
(* hours; and who left has come, because a scan that is to leave was let   *)
(* through on a valid one that came, and rows stay.                        *)
(***************************************************************************)
ScanJob == [step : {"check", "write"}, type : A!Kinds, recordedAt : A!Hours]

CameFirst ==
    /\ \A x \in rows : x.isValid /\ x.type = "CHECK_OUT" =>
          A!Has(A!Day(x.recordedAt), "CHECK_IN")
    /\ \A r \in Scans : scan[r].step = "write" /\ scan[r].type = "CHECK_OUT" =>
          A!Has(A!Day(scan[r].recordedAt), "CHECK_IN")

AttendanceInv == A!TypeOK /\ IsFiniteSet(rows) /\ CameFirst

LEMMA SameSize == \A S : A!Cardinality(S) = Cardinality(S)
  BY DEF A!Cardinality, Cardinality

LEMMA ScanKinds ==
    ASSUME A!TypeOK, NEW r \in Scans
    PROVE  /\ scan[r].step \in {"idle", "check", "write"}
           /\ scan[r].step = "idle" <=> scan[r] = A!Idle
           /\ scan[r] # A!Idle => scan[r] \in ScanJob
  BY DEF A!TypeOK, A!Idle, ScanJob

\* Rows only come.
LEMMA HasStays ==
    ASSUME rows \subseteq rows', NEW d, NEW type, A!Has(d, type)
    PROVE  A!Has(d, type)'
  BY DEF A!Has, A!OfDay

LEMMA ArriveScans ==
    ASSUME AttendanceInv, NEW r \in Scans, NEW type \in A!Kinds, A!Arrive(r, type)
    PROVE  AttendanceInv'
  <1> DEFINE j == [step |-> "check", type |-> type, recordedAt |-> now]
  <1>1. scan' = [scan EXCEPT ![r] = j] /\ UNCHANGED <<now, rows>> /\ j \in ScanJob
    BY DEF A!Arrive, ScanJob, AttendanceInv, A!TypeOK
  <1>2. A!TypeOK'
    BY <1>1 DEF AttendanceInv, A!TypeOK, ScanJob
  <1>3. CameFirst'
    BY <1>1 DEF AttendanceInv, CameFirst, A!TypeOK, A!Has, A!OfDay
  <1> QED
    BY <1>1, <1>2, <1>3 DEF AttendanceInv

LEMMA CheckScans ==
    ASSUME AttendanceInv, NEW r \in Scans, A!Check(r)
    PROVE  AttendanceInv'
  <1>1. /\ UNCHANGED <<now, rows>> /\ scan[r].step = "check" /\ scan[r] \in ScanJob
        /\ \/ /\ scan' = [scan EXCEPT ![r].step = "write"]
              /\ scan[r].type = "CHECK_OUT" => A!Has(A!Day(scan[r].recordedAt), "CHECK_IN")
           \/ scan' = [scan EXCEPT ![r] = A!Idle]
    BY ScanKinds DEF A!Check, AttendanceInv, A!Idle
  <1>2. CASE scan' = [scan EXCEPT ![r] = A!Idle]
    <2>1. A!TypeOK'
      BY <1>1, <1>2 DEF AttendanceInv, A!TypeOK
    <2>2. CameFirst'
      BY <1>1, <1>2 DEF AttendanceInv, CameFirst, A!TypeOK, A!Has, A!OfDay, A!Idle
    <2> QED
      BY <1>1, <2>1, <2>2 DEF AttendanceInv
  <1>3. CASE /\ scan' = [scan EXCEPT ![r].step = "write"]
             /\ scan[r].type = "CHECK_OUT" => A!Has(A!Day(scan[r].recordedAt), "CHECK_IN")
    <2>1. [scan[r] EXCEPT !.step = "write"] \in ScanJob
      BY <1>1 DEF ScanJob
    <2>2. A!TypeOK'
      BY <1>1, <1>3, <2>1 DEF AttendanceInv, A!TypeOK, ScanJob
    <2>3. /\ \A q \in Scans : q # r => scan'[q] = scan[q]
          /\ scan'[r].type = scan[r].type /\ scan'[r].recordedAt = scan[r].recordedAt
      BY <1>1, <1>3 DEF AttendanceInv, A!TypeOK, ScanJob
    <2>4. CameFirst'
      BY <1>1, <1>3, <2>3 DEF AttendanceInv, CameFirst, A!Has, A!OfDay
    <2> QED
      BY <1>1, <2>2, <2>4 DEF AttendanceInv
  <1> QED
    BY <1>1, <1>2, <1>3

LEMMA WriteScans ==
    ASSUME AttendanceInv, NEW r \in Scans, NEW valid \in BOOLEAN, A!Write(r, valid)
    PROVE  AttendanceInv'
  <1> DEFINE at == scan[r].recordedAt
             x == [n |-> Cardinality(rows) + 1, type |-> scan[r].type, recordedAt |-> at,
                   isValid |-> valid,
                   isLate |-> scan[r].type = "CHECK_IN" /\ A!HourOf(at) > Deadline]
  <1>1. /\ scan[r].step = "write" /\ Cardinality(rows) < MaxRows /\ rows' = rows \cup {x}
        /\ scan' = [scan EXCEPT ![r] = A!Idle] /\ now' = now
    BY SameSize DEF A!Write
  <1>2. scan[r] \in ScanJob
    BY <1>1, ScanKinds DEF AttendanceInv, A!Idle
  <1>3. Cardinality(rows) \in Nat /\ IsFiniteSet(rows')
    BY <1>1, FS_CardinalityType, FS_AddElement DEF AttendanceInv
  <1>4. Cardinality(rows) + 1 \in 1..MaxRows
    BY <1>1, <1>3, RecordsAssumption
  <1>5. x \in A!Row
    BY <1>2, <1>4 DEF A!Row, ScanJob
  <1>6. A!TypeOK'
    BY <1>1, <1>5 DEF AttendanceInv, A!TypeOK
  <1>7. x.type = scan[r].type /\ x.recordedAt = scan[r].recordedAt
    OBVIOUS
  <1> HIDE DEF x
  <1>8. x.type = "CHECK_OUT" => A!Has(A!Day(x.recordedAt), "CHECK_IN")
    BY <1>1, <1>7 DEF AttendanceInv, CameFirst
  <1>9. \A d : A!Has(d, "CHECK_IN") => A!Has(d, "CHECK_IN")'
    BY <1>1, HasStays
  <1>10. CameFirst'
    <2>1. \A y \in rows' : y.isValid /\ y.type = "CHECK_OUT" =>
             A!Has(A!Day(y.recordedAt), "CHECK_IN")
      BY <1>1, <1>8 DEF AttendanceInv, CameFirst
    <2>2. \A q \in Scans : scan'[q].step = "write" => scan'[q] = scan[q]
      BY <1>1 DEF AttendanceInv, A!TypeOK, A!Idle
    <2> QED
      BY <1>9, <2>1, <2>2 DEF AttendanceInv, CameFirst, A!Day
  <1> QED
    BY <1>3, <1>6, <1>10 DEF AttendanceInv

LEMMA AttendanceStep ==
    ASSUME AttendanceInv, [A!Next]_(A!vars)
    PROVE  AttendanceInv'
  <1>1. CASE UNCHANGED A!vars
    BY <1>1 DEF A!vars, AttendanceInv, A!TypeOK, CameFirst, A!Has, A!OfDay
  <1>2. CASE A!Passes
    <2>1. now' \in A!Hours
      BY <1>2, RecordsAssumption DEF A!Passes, A!Hours, AttendanceInv, A!TypeOK
    <2> QED
      BY <1>2, <2>1 DEF A!Passes, AttendanceInv, A!TypeOK, CameFirst, A!Has, A!OfDay
  <1>3. ASSUME NEW r \in Scans, A!Fail(r) PROVE AttendanceInv'
    BY <1>3 DEF A!Fail, AttendanceInv, A!TypeOK, CameFirst, A!Has, A!OfDay, A!Idle
  <1> QED
    BY <1>1, <1>2, <1>3, ArriveScans, CheckScans, WriteScans DEF A!Next

LEMMA AttendanceInit == A!Init => AttendanceInv
  BY FS_EmptySet, RecordsAssumption
  DEF A!Init, AttendanceInv, A!TypeOK, CameFirst, A!Hours, A!Idle

\* A set of hours has a least, and a greatest.
LEMMA LeastHour ==
    ASSUME NEW S \in SUBSET Nat, S # {}
    PROVE  \E n \in S : \A k \in S : n <= k
  <1>1. PICK n \in S : \A k \in S : ~(<<k, n>> \in OpToRel(<, Nat))
    BY NatLessThanWellFounded, WFMin
  <1>2. \A k \in S : ~(k < n)
    BY <1>1 DEF OpToRel
  <1>3. \A k \in S : k \in Nat /\ n \in Nat
    OBVIOUS
  <1> QED
    BY <1>2, <1>3

LEMMA GreatestHour ==
    ASSUME NEW b \in Nat, NEW S \in SUBSET (0..b), S # {}
    PROVE  \E n \in S : \A k \in S : k <= n
  <1> DEFINE T == {b - k : k \in S}
  <1>1. T \in SUBSET Nat /\ T # {}
    <2>1. \A k \in S : b - k \in Nat
      OBVIOUS
    <2> QED
      BY <2>1
  <1> HIDE DEF T
  <1>2. PICK m \in T : \A k \in T : m <= k
    BY <1>1, LeastHour
  <1>3. PICK n \in S : m = b - n
    BY <1>2 DEF T
  <1>4. \A k \in S : m <= b - k
    BY <1>2 DEF T
  <1> QED
    BY <1>3, <1>4

LEMMA FirstAndLast ==
    ASSUME NEW S \in SUBSET A!Row, S # {}
    PROVE  A!First(S) \in S /\ A!Last(S) \in S
  <1> DEFINE H == {x.recordedAt : x \in S}
  <1>1. H \in SUBSET (0..MaxHour) /\ H \in SUBSET Nat /\ H # {}
    BY RecordsAssumption DEF A!Row, A!Hours
  <1>2. \E x \in S : \A y \in S : x.recordedAt <= y.recordedAt
    <2>1. PICK n \in H : \A k \in H : n <= k
      BY <1>1, LeastHour
    <2> QED
      BY <2>1
  <1>3. \E x \in S : \A y \in S : x.recordedAt >= y.recordedAt
    <2>1. PICK n \in H : \A k \in H : k <= n
      BY <1>1, GreatestHour, RecordsAssumption
    <2>2. PICK x \in S : n = x.recordedAt
      BY <2>1
    <2>3. \A y \in S : y.recordedAt \in H /\ y.recordedAt \in Nat
      BY <1>1
    <2> QED
      BY <1>1, <2>1, <2>2, <2>3
  <1> QED
    BY <1>2, <1>3 DEF A!First, A!Last

LEMMA ViewsFollow ==
    ASSUME AttendanceInv
    PROVE  A!ViewsAgree
  <1> SUFFICES ASSUME NEW d \in A!Days, NEW c \in A!Calendars
               PROVE  /\ A!Present(d) <=> A!Status(d, c) \in {"present", "late", "left"}
                      /\ A!Status(d, c) = "left" <=> A!LastCheckOut(d) >= 0
                      /\ A!IsLate(d, c) => A!ReportLate(d)
    BY DEF A!ViewsAgree
  <1> DEFINE In == A!Valid(d, "CHECK_IN")
             Out == A!Valid(d, "CHECK_OUT")
  <1>1. In \in SUBSET A!Row /\ Out \in SUBSET A!Row
    BY DEF A!Valid, A!OfDay, AttendanceInv, A!TypeOK
  <1>2. In = {} => Out = {}
    BY DEF A!Valid, A!OfDay, A!Has, AttendanceInv, CameFirst
  <1> HIDE DEF In, Out
  <1>3. /\ In # {} => A!CheckIn(d) \in In /\ A!CheckIn(d) # Null
        /\ In = {} => A!CheckIn(d) = Null
    BY <1>1, FirstAndLast, RecordsAssumption DEF A!CheckIn, In
  <1>4. /\ Out # {} => A!CheckOut(d) # Null
        /\ Out = {} => A!CheckOut(d) = Null
    BY <1>1, FirstAndLast, RecordsAssumption DEF A!CheckOut, Out
  <1>5. A!Present(d) <=> In # {}
    BY DEF A!Present, In
  <1>6. A!LastCheckOut(d) >= 0 <=> Out # {}
    <2>1. CASE Out = {}
      BY <2>1 DEF A!LastCheckOut, Out
    <2>2. CASE Out # {}
      <3>1. A!LastCheckOut(d) = A!Last(Out).recordedAt
        BY <2>2 DEF A!LastCheckOut, Out
      <3>2. A!Last(Out) \in A!Row
        BY <1>1, <2>2, FirstAndLast
      <3>3. A!Last(Out).recordedAt \in 0..MaxHour
        BY <3>2 DEF A!Row, A!Hours
      <3> QED
        BY <2>2, <3>1, <3>3, RecordsAssumption
    <2> QED
      BY <2>1, <2>2
  <1>7. A!IsLate(d, c) => A!ReportLate(d)
    BY <1>3 DEF A!IsLate, A!ReportLate, In
  <1>8. /\ A!Status(d, c) \in {"present", "late", "left"} <=> A!CheckIn(d) # Null
        /\ A!Status(d, c) = "left" <=> A!CheckIn(d) # Null /\ A!CheckOut(d) # Null
    BY DEF A!Status
  <1> QED
    BY <1>2, <1>3, <1>4, <1>5, <1>6, <1>7, <1>8

-----------------------------------------------------------------------------
(***************************************************************************)
(* Positions.                                                              *)
(***************************************************************************)
PhoneTypes ==
    /\ recorded \in 0..MaxPoints
    /\ running \in BOOLEAN /\ starting \in BOOLEAN /\ stopping \in BOOLEAN
    /\ streams \in 0..(MaxStops + 1) /\ handle \in BOOLEAN /\ timer \in BOOLEAN
    /\ stops \in 0..MaxStops
    /\ disk \subseteq L!Points

\* Every stream beyond the one of this run was left by a stop that did not know of it.
StreamsCounted ==
    /\ streams <= stops + (IF running THEN 1 ELSE 0)
    /\ handle => streams > 0

PostTypes ==
    /\ post \in [Posts -> L!Post \cup {L!NoPost}]
    /\ \A r \in Posts : post[r].at # "free" => post[r].points # {}

WatchTypes ==
    /\ places \subseteq L!Points
    /\ last \in L!Points \cup {0} /\ alerted \in BOOLEAN /\ notices \in Nat /\ active \in BOOLEAN
    /\ aged \in 0..MaxPoints
    /\ watching \in BOOLEAN

\* An alert is marked, and a scan that is under way has found no mark: nothing but the
\* scan takes the mark away and leaves the alert.
AlertIsMarked ==
    /\ notices <= 1 /\ (notices > 0 => alerted)
    /\ watching => notices = 0

PlacesInv == PhoneTypes /\ StreamsCounted /\ PostTypes /\ WatchTypes /\ AlertIsMarked

LEMMA PlacesTypes == PlacesInv <=>
    /\ L!TypeOK /\ StreamsCounted /\ AlertIsMarked
    /\ \A r \in Posts : post[r].at # "free" => post[r].points # {}
  BY DEF PlacesInv, PhoneTypes, PostTypes, WatchTypes, L!TypeOK

LEMMA NewestIsOne ==
    ASSUME NEW P \in SUBSET L!Points, P # {}
    PROVE  L!Newest(P) \in P
  <1>1. P \in SUBSET (0..MaxPoints)
    BY RecordsAssumption DEF L!Points
  <1>2. \E n \in P : \A m \in P : m <= n
    BY <1>1, GreatestHour, RecordsAssumption
  <1> QED
    BY <1>2 DEF L!Newest

\* What a request under way is.
LEMMA APost ==
    ASSUME PostTypes, NEW r \in Posts
    PROVE  /\ post[r] \in L!Post \cup {L!NoPost}
           /\ post[r].at = "free" <=> post[r] = L!NoPost
           /\ post[r].at # "free" =>
                 /\ post[r] \in L!Post
                 /\ post[r].points \in SUBSET L!Points /\ post[r].points # {}
  BY DEF PostTypes, L!Post, L!NoPost

LEMMA ChangedPost ==
    ASSUME PostTypes, NEW r \in Posts, NEW p \in L!Post \cup {L!NoPost},
           p.at # "free" => p.points # {}, post' = [post EXCEPT ![r] = p]
    PROVE  PostTypes'
  BY DEF PostTypes

LEMMA SendsPost ==
    ASSUME PostTypes, NEW r \in Posts, NEW batch \in BOOLEAN, NEW P \in SUBSET L!Points, P # {},
           L!Sends(r, batch, P)
    PROVE  PostTypes'
  <1> DEFINE p == [at |-> "sent", batch |-> batch, points |-> P, seen |-> 0, awaited |-> TRUE]
  <1>1. p \in L!Post
    BY DEF L!Post
  <1> QED
    BY <1>1, ChangedPost DEF L!Sends

LEMMA FreePost ==
    ASSUME PostTypes, NEW r \in Posts, post' = [post EXCEPT ![r] = L!NoPost]
    PROVE  PostTypes'
  BY ChangedPost DEF L!NoPost

\* A request moves on: nothing of it changes but where it is and what it has read.
LEMMA MovedPost ==
    ASSUME PostTypes, NEW r \in Posts, post[r].at # "free",
           NEW at \in {"sent", "read", "stored", "answered", "over"},
           NEW seen \in L!Points \cup {0}, NEW awaited \in BOOLEAN,
           post' = [post EXCEPT ![r] = [post[r] EXCEPT !.at = at, !.seen = seen,
                                                       !.awaited = awaited]]
    PROVE  PostTypes'
  <1> DEFINE p == [post[r] EXCEPT !.at = at, !.seen = seen, !.awaited = awaited]
  <1>1. post[r] \in L!Post /\ post[r].points # {}
    BY APost
  <1>2. p \in L!Post /\ p.points # {}
    BY <1>1 DEF L!Post
  <1> QED
    BY <1>2, ChangedPost

LEMMA StartPlaces ==
    ASSUME PlacesInv,
           L!Start \/ L!Stop \/ L!Stopped \/ \E ok \in BOOLEAN : L!Started(ok)
    PROVE  PlacesInv'
  <1>1. UNCHANGED <<recorded, disk, post, places, last, alerted, notices, active, aged, watching>>
    BY DEF L!Start, L!Stop, L!Stopped, L!Started, L!employeeVars
  <1>2. PostTypes' /\ WatchTypes' /\ AlertIsMarked'
    BY <1>1 DEF PlacesInv, PostTypes, WatchTypes, AlertIsMarked
  <1>3. PhoneTypes' /\ StreamsCounted'
    <2>1. CASE L!Start
      BY <2>1 DEF L!Start, PlacesInv, PhoneTypes, StreamsCounted
    <2>2. CASE L!Stop
      <3>1. /\ stops' = stops + 1 /\ stops < MaxStops /\ stops \in Nat /\ streams \in Nat
            /\ streams <= stops + 1
        BY <2>2, RecordsAssumption DEF L!Stop, PlacesInv, PhoneTypes, StreamsCounted
      <3>2. /\ streams' \in Nat /\ streams' <= stops'
            /\ stops' \in 0..MaxStops /\ streams' \in 0..(MaxStops + 1)
        <4>1. CASE handle
          BY <2>2, <3>1, <4>1, RecordsAssumption DEF L!Stop, PlacesInv, StreamsCounted
        <4>2. CASE ~handle
          BY <2>2, <3>1, <4>2, RecordsAssumption DEF L!Stop
        <4> QED
          BY <4>1, <4>2
      <3>3. ~running' /\ ~handle'
        BY <2>2 DEF L!Stop
      <3>4. StreamsCounted'
        BY <3>1, <3>2, <3>3 DEF StreamsCounted
      <3>5. PhoneTypes'
        BY <2>2, <3>2 DEF L!Stop, PlacesInv, PhoneTypes
      <3> QED
        BY <3>4, <3>5
    <2>3. CASE L!Stopped
      BY <2>3 DEF L!Stopped, PlacesInv, PhoneTypes, StreamsCounted
    <2>4. ASSUME NEW ok \in BOOLEAN, L!Started(ok) PROVE PhoneTypes' /\ StreamsCounted'
      <3>1. CASE ok /\ ~running
        <4>1. /\ streams' = streams + 1 /\ stops' = stops /\ running' /\ handle'
              /\ streams \in Nat /\ stops \in 0..MaxStops /\ streams <= stops
          BY <2>4, <3>1, RecordsAssumption DEF L!Started, PlacesInv, PhoneTypes, StreamsCounted
        <4>2. StreamsCounted' /\ streams' \in 0..(MaxStops + 1)
          BY <4>1, RecordsAssumption DEF StreamsCounted
        <4> QED
          BY <2>4, <3>1, <4>2 DEF L!Started, PlacesInv, PhoneTypes
      <3>2. CASE ~(ok /\ ~running)
        BY <2>4, <3>2 DEF L!Started, PlacesInv, PhoneTypes, StreamsCounted
      <3> QED
        BY <3>1, <3>2
    <2> QED
      BY <2>1, <2>2, <2>3, <2>4
  <1> QED
    BY <1>2, <1>3 DEF PlacesInv

LEMMA PostPlaces ==
    ASSUME PlacesInv, NEW r \in Posts,
           L!Fix(r) \/ L!Tick(r) \/ L!FixPosted(r) \/ L!BatchPosted(r) \/ L!GivesUp(r)
    PROVE  PlacesInv'
  <1>1. UNCHANGED <<running, starting, stopping, streams, handle, timer, stops,
                    places, last, alerted, notices, active, aged, watching>>
    BY DEF L!Fix, L!Tick, L!FixPosted, L!BatchPosted, L!GivesUp, L!phoneVars, L!employeeVars
  <1>2. WatchTypes' /\ AlertIsMarked' /\ StreamsCounted'
    BY <1>1 DEF PlacesInv, WatchTypes, AlertIsMarked, StreamsCounted
  <1>3. PostTypes /\ disk \in SUBSET L!Points
    BY DEF PlacesInv, PhoneTypes
  <1>4. PhoneTypes' /\ PostTypes'
    <2>1. CASE L!Fix(r)
      <3>1. recorded + 1 \in L!Points /\ recorded' = recorded + 1 /\ disk' = disk
        BY <2>1, RecordsAssumption DEF L!Fix, L!Points, PlacesInv, PhoneTypes
      <3>2. PostTypes'
        BY <1>3, <2>1, <3>1, SendsPost DEF L!Fix
      <3> QED
        BY <1>1, <3>1, <3>2 DEF L!Points, PlacesInv, PhoneTypes
    <2>2. CASE L!Tick(r)
      <3>1. UNCHANGED L!phoneVars /\ PostTypes'
        BY <1>3, <2>2, SendsPost DEF L!Tick
      <3> QED
        BY <3>1 DEF PlacesInv, PhoneTypes, L!phoneVars
    <2>3. CASE L!FixPosted(r)
      <3>1. UNCHANGED L!phoneVars /\ PostTypes'
        BY <1>3, <2>3, SendsPost, FreePost DEF L!FixPosted
      <3> QED
        BY <3>1 DEF PlacesInv, PhoneTypes, L!phoneVars
    <2>4. CASE L!BatchPosted(r)
      <3>1. disk' = {} /\ recorded' = recorded /\ PostTypes'
        BY <1>3, <2>4, FreePost DEF L!BatchPosted
      <3> QED
        BY <1>1, <3>1 DEF PlacesInv, PhoneTypes
    <2>5. CASE L!GivesUp(r)
      <3>1. post[r] \in L!Post /\ post[r].at # "free"
        BY <1>3, <2>5, APost DEF L!GivesUp
      <3>2. disk' \in SUBSET L!Points /\ recorded' = recorded
        BY <1>3, <2>5, <3>1 DEF L!GivesUp, L!Post
      <3>3. PostTypes'
        <4>1. CASE post[r].at = "answered"
          BY <1>3, <2>5, <4>1, FreePost DEF L!GivesUp
        <4>2. CASE post[r].at # "answered"
          <5>1. post' = [post EXCEPT ![r] = [post[r] EXCEPT !.awaited = FALSE]]
            BY <2>5, <4>2 DEF L!GivesUp
          <5>2. [post[r] EXCEPT !.awaited = FALSE]
                  = [post[r] EXCEPT !.at = post[r].at, !.seen = post[r].seen, !.awaited = FALSE]
            BY <3>1 DEF L!Post
          <5>3. /\ post[r].at \in {"sent", "read", "stored", "answered", "over"}
                /\ post[r].seen \in L!Points \cup {0}
            BY <3>1 DEF L!Post
          <5> QED
            BY <1>3, <3>1, <5>1, <5>2, <5>3, MovedPost
        <4> QED
          BY <4>1, <4>2
      <3> QED
        BY <1>1, <3>2, <3>3 DEF PlacesInv, PhoneTypes
    <2> QED
      BY <2>1, <2>2, <2>3, <2>4, <2>5
  <1> QED
    BY <1>2, <1>4 DEF PlacesInv

LEMMA ServedPlaces ==
    ASSUME PlacesInv, NEW r \in Posts,
           L!Forgotten(r) \/ L!Reads(r) \/ L!Stores(r) \/ L!WritesLast(r)
    PROVE  PlacesInv'
  <1>1. UNCHANGED L!phoneVars /\ UNCHANGED <<active, aged, watching>>
    BY DEF L!Forgotten, L!Reads, L!Stores, L!WritesLast, L!employeeVars
  <1>2. PhoneTypes' /\ StreamsCounted'
    BY <1>1 DEF PlacesInv, PhoneTypes, StreamsCounted, L!phoneVars
  <1>3. PostTypes /\ post[r].at # "free"
    BY DEF PlacesInv, L!Forgotten, L!Reads, L!Stores, L!WritesLast
  <1>4. post[r] \in L!Post /\ post[r].points \in SUBSET L!Points /\ post[r].points # {}
    BY <1>3, APost
  <1>5. /\ post[r].at \in {"sent", "read", "stored", "answered", "over"}
        /\ post[r].seen \in L!Points \cup {0} /\ post[r].awaited \in BOOLEAN
    BY <1>4 DEF L!Post
  <1>6. \A at \in {"sent", "read", "stored", "answered", "over"} :
           post' = [post EXCEPT ![r].at = at] => PostTypes'
    <2> SUFFICES ASSUME NEW at \in {"sent", "read", "stored", "answered", "over"},
                        post' = [post EXCEPT ![r].at = at]
                 PROVE  PostTypes'
      OBVIOUS
    <2>1. post' = [post EXCEPT ![r] = [post[r] EXCEPT !.at = at]]
      OBVIOUS
    <2>2. [post[r] EXCEPT !.at = at] \in L!Post /\ [post[r] EXCEPT !.at = at].points # {}
      BY <1>4 DEF L!Post
    <2> QED
      BY <1>3, <2>1, <2>2, ChangedPost
  <1>7. CASE L!Forgotten(r)
    <2>1. PostTypes' /\ UNCHANGED <<places, last, alerted, notices>>
      BY <1>3, <1>7, FreePost DEF L!Forgotten, L!employeeVars
    <2> QED
      BY <1>1, <1>2, <2>1 DEF PlacesInv, WatchTypes, AlertIsMarked
  <1>8. CASE L!Reads(r)
    <2>1. post' = [post EXCEPT ![r] = [post[r] EXCEPT !.at = "read", !.seen = last]]
      BY <1>3, <1>8 DEF L!Reads, PostTypes
    <2>2. [post[r] EXCEPT !.at = "read", !.seen = last]
            = [post[r] EXCEPT !.at = "read", !.seen = last, !.awaited = post[r].awaited]
      BY <1>4 DEF L!Post
    <2>3. last \in L!Points \cup {0} /\ UNCHANGED <<places, last, alerted, notices>>
      BY <1>8 DEF L!Reads, L!employeeVars, PlacesInv, WatchTypes
    <2>4. PostTypes'
      BY <1>3, <1>5, <2>1, <2>2, <2>3, MovedPost
    <2> QED
      BY <1>1, <1>2, <2>3, <2>4 DEF PlacesInv, WatchTypes, AlertIsMarked
  <1>9. CASE L!Stores(r)
    <2>1. PostTypes'
      BY <1>6, <1>9 DEF L!Stores
    <2>2. places' \in SUBSET L!Points /\ UNCHANGED <<last, alerted, notices>>
      BY <1>4, <1>9 DEF L!Stores, L!employeeVars, PlacesInv, WatchTypes
    <2> QED
      BY <1>1, <1>2, <2>1, <2>2 DEF PlacesInv, WatchTypes, AlertIsMarked
  <1>10. CASE L!WritesLast(r)
    <2>1. PostTypes'
      BY <1>6, <1>10 DEF L!WritesLast
    <2>2. /\ last' \in L!Points /\ alerted' = FALSE /\ notices' = 0 /\ places' = places
      BY <1>4, <1>10, NewestIsOne DEF L!WritesLast
    <2>3. AlertIsMarked'
      BY <2>2 DEF AlertIsMarked
    <2>4. WatchTypes'
      BY <1>1, <2>2 DEF PlacesInv, WatchTypes
    <2> QED
      BY <1>2, <2>1, <2>3, <2>4 DEF PlacesInv
  <1> QED
    BY <1>7, <1>8, <1>9, <1>10

LEMMA WatchedPlaces ==
    ASSUME PlacesInv, L!ScanReads \/ L!ScanAlerts \/ L!SetActive \/ L!Ages
    PROVE  PlacesInv'
  <1>1. UNCHANGED L!phoneVars /\ UNCHANGED <<post, places, last>>
    BY DEF L!ScanReads, L!ScanAlerts, L!SetActive, L!Ages, L!employeeVars
  <1>2. PhoneTypes' /\ StreamsCounted' /\ PostTypes'
    BY <1>1 DEF PlacesInv, PhoneTypes, StreamsCounted, PostTypes, L!phoneVars
  <1>3. WatchTypes' /\ AlertIsMarked'
    <2>1. CASE L!ScanReads
      <3>1. /\ UNCHANGED <<last, alerted, notices, active, aged>> /\ watching' = TRUE /\ ~alerted
        BY <2>1 DEF L!ScanReads, L!IsStale, L!employeeVars
      <3>2. notices = 0
        <4>1. notices \in Nat /\ ~(notices > 0)
          BY <3>1 DEF PlacesInv, WatchTypes, AlertIsMarked
        <4> QED
          BY <4>1
      <3>3. AlertIsMarked'
        BY <3>1, <3>2 DEF AlertIsMarked
      <3> QED
        BY <1>1, <3>1, <3>3 DEF PlacesInv, WatchTypes
    <2>2. CASE L!ScanAlerts
      <3>1. /\ UNCHANGED <<last, active, aged>> /\ watching' = FALSE /\ alerted' = TRUE
            /\ notices = 0 /\ notices' = notices + 1
        BY <2>2 DEF L!ScanAlerts, PlacesInv, AlertIsMarked
      <3>2. notices' = 1
        BY <3>1
      <3>3. AlertIsMarked'
        BY <3>1, <3>2 DEF AlertIsMarked
      <3> QED
        <4> DEFINE Rest(pl, la, ac, ag) ==
                /\ pl \subseteq L!Points /\ la \in L!Points \cup {0} /\ ac \in BOOLEAN
                /\ ag \in 0..MaxPoints
        <4>2. Rest(places, last, active, aged)
          BY DEF PlacesInv, WatchTypes
        <4>3. Rest(places', last', active', aged')
          BY <1>1, <3>1, <4>2, Zenon
        <4>4. notices' \in Nat
          BY <3>2
        <4>5. alerted' \in BOOLEAN /\ watching' \in BOOLEAN
          BY <3>1, Zenon
        <4>1. WatchTypes'
          BY <4>3, <4>4, <4>5, Zenon DEF WatchTypes
        <4> QED
          BY <3>3, <4>1
    <2>3. CASE L!SetActive
      BY <1>1, <2>3 DEF L!SetActive, PlacesInv, WatchTypes, AlertIsMarked
    <2>4. CASE L!Ages
      BY <1>1, <2>4, RecordsAssumption
      DEF L!Ages, L!employeeVars, PlacesInv, PhoneTypes, WatchTypes, AlertIsMarked
    <2> QED
      BY <2>1, <2>2, <2>3, <2>4
  <1> QED
    BY <1>2, <1>3 DEF PlacesInv

LEMMA PlacesStep ==
    ASSUME PlacesInv, [L!Next]_(L!vars)
    PROVE  PlacesInv'
  <1>1. CASE UNCHANGED L!vars
    BY <1>1 DEF L!vars, L!phoneVars, L!employeeVars, PlacesInv, PhoneTypes, StreamsCounted,
                PostTypes, WatchTypes, AlertIsMarked
  <1>2. CASE L!Next
    BY <1>2, StartPlaces, PostPlaces, ServedPlaces, WatchedPlaces DEF L!Next
  <1> QED
    BY <1>1, <1>2

LEMMA PlacesInit == L!Init => PlacesInv
  <1> SUFFICES ASSUME L!Init PROVE PlacesInv
    OBVIOUS
  <1>1. PostTypes
    <2>1. post = [r \in Posts |-> L!NoPost]
      BY DEF L!Init
    <2>2. L!NoPost.at = "free"
      BY DEF L!NoPost
    <2> QED
      BY <2>1, <2>2 DEF PostTypes
  <1>2. PhoneTypes
    <2>1. stops = 0 /\ streams = 0 /\ recorded = 0
      BY DEF L!Init
    <2>2. stops \in 0..MaxStops /\ streams \in 0..(MaxStops + 1) /\ recorded \in 0..MaxPoints
      BY <2>1, RecordsAssumption
    <2> QED
      BY <2>2 DEF L!Init, PhoneTypes
  <1>3. WatchTypes
    <2>1. places = {} /\ last = 0 /\ notices = 0 /\ aged = 0
      BY DEF L!Init
    <2>2. /\ places \subseteq L!Points /\ last \in L!Points \cup {0} /\ notices \in Nat
          /\ aged \in 0..MaxPoints
      BY <2>1, RecordsAssumption
    <2>3. alerted \in BOOLEAN /\ active \in BOOLEAN /\ watching \in BOOLEAN
      BY Zenon DEF L!Init
    <2> QED
      BY <2>2, <2>3, Zenon DEF WatchTypes
  <1>4. AlertIsMarked /\ StreamsCounted
    BY DEF L!Init, AlertIsMarked, StreamsCounted
  <1> QED
    BY <1>1, <1>2, <1>3, <1>4 DEF PlacesInv
-----------------------------------------------------------------------------
(***************************************************************************)
(* Side by side.                                                           *)
(***************************************************************************)
\* No step of one part moves another: murojaats, conversations, attendance and
\* positions each behave as their own module says.
THEOREM RecordsIsItsParts == RecordsSpec => Spec /\ C!Spec /\ A!Spec /\ L!Spec
  <1>1. RecordsInit => Init /\ C!Init /\ A!Init /\ L!Init
    BY DEF RecordsInit
  <1>2. RecordsSpec => RecordsInit /\ [][RecordsNext]_allVars
    BY PTL DEF RecordsSpec
  <1> USE DEF RecordsNext, Murojaats, Places, allVars, chatVars, scanVars, placeVars
  <1>3. [RecordsNext]_allVars => [Next]_vars
    BY DEF vars
  <1>4. [RecordsNext]_allVars => [C!Next]_(C!vars)
    BY DEF C!vars
  <1>5. [RecordsNext]_allVars => [A!Next]_(A!vars)
    BY DEF A!vars
  <1>6. [RecordsNext]_allVars => [L!Next]_(L!vars)
    BY DEF L!vars, L!phoneVars, L!employeeVars
  <1> QED
    BY <1>1, <1>2, <1>3, <1>4, <1>5, <1>6, PTL DEF Spec, C!Spec, A!Spec, L!Spec

\* An archived conversation hides no message that came after it was archived, whatever is
\* sent, deleted, cleared and opened between two writes of chat.service.
THEOREM NewsShown == RecordsSpec => []NewsIsShown
  <1>1. C!Init => C!TypeOK /\ C!NewsIsShown
    BY ChatInit
  <1>2. C!TypeOK /\ C!NewsIsShown /\ [C!Next]_(C!vars) => C!TypeOK' /\ C!NewsIsShown'
    BY ChatTypes, NewsStep
  <1> QED
    BY <1>1, <1>2, RecordsIsItsParts, PTL DEF C!Spec, NewsIsShown

LEMMA AttendanceAlways == A!Spec => []AttendanceInv
  <1>1. AttendanceInv /\ [A!Next]_(A!vars) => AttendanceInv'
    BY AttendanceStep
  <1> QED
    BY <1>1, AttendanceInit, PTL DEF A!Spec

\* The dashboard, the report and the table of staff tell the same of a day, in whatever
\* order its scans are checked and written.
THEOREM ViewsAgreeAlways == RecordsSpec => []ViewsAgree
  <1>1. AttendanceInv => ViewsAgree
    BY ViewsFollow DEF ViewsAgree
  <1> QED
    BY <1>1, AttendanceAlways, RecordsIsItsParts, PTL

LEMMA PlacesAlways == L!Spec => []PlacesInv
  <1>1. PlacesInv /\ [L!Next]_(L!vars) => PlacesInv'
    BY PlacesStep
  <1> QED
    BY <1>1, PlacesInit, PTL DEF L!Spec

\* A silence is alerted once at most, also when a position is written in the middle of a
\* scan of the staleness watcher.
THEOREM OneAlert == WatchersSpec => []OneAlertPerSilence
  <1>1. WatchersSpec => RecordsSpec
    BY PTL DEF WatchersSpec
  <1>2. PlacesInv => OneAlertPerSilence
    BY DEF PlacesInv, AlertIsMarked, OneAlertPerSilence, L!OneAlertPerSilence
  <1> QED
    BY <1>1, <1>2, PlacesAlways, RecordsIsItsParts, PTL

\* The records keep their types; a stop of the tracking service leaves one stream at most.
THEOREM RecordsTypes == RecordsSpec => []TypesOK
  <1>1. C!Init => C!TypeOK
    BY ChatInit
  <1>2. C!TypeOK /\ [C!Next]_(C!vars) => C!TypeOK'
    BY ChatTypes
  <1>3. AttendanceInv => A!TypeOK
    BY DEF AttendanceInv
  <1>4. PlacesInv => L!TypeOK
    BY PlacesTypes
  <1> QED
    BY <1>1, <1>2, <1>3, <1>4, TypeCorrect, AttendanceAlways, PlacesAlways, RecordsIsItsParts,
       PTL DEF C!Spec, TypesOK
=============================================================================

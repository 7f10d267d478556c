---------------------------- MODULE Applications ----------------------------
(***************************************************************************)
(* The murojaat (citizen appeal) service: ApplicationsService, the admin   *)
(* path into it (RequestsService.updateApplication / remove), the release  *)
(* of an archived employee's appeals (OversightService.archive / purge)    *)
(* and the SLA watcher.                                                    *)
(*                                                                         *)
(* Every HTTP handler reads the row, decides, and only then opens the      *)
(* transaction that writes it.  A handler is therefore a task held in      *)
(* task[p] between its reads and its write, and the steps of the handlers  *)
(* in Handlers interleave at every await.  A transaction is one step: it   *)
(* holds the row's lock from its first update to its commit.               *)
(***************************************************************************)
EXTENDS Integers, FiniteSets

CONSTANTS
    Apps,           \* murojaat ids
    Emps,           \* employee ids
    Handlers,       \* requests the server may be serving at one time
    MaxReopens,     \* MAX_REOPENS
    SweepLimit,     \* rows one SLA sweep takes ("take: 50")
    Traffic,        \* the kinds of request that arrive
    Null,           \* a column that is NULL, and a patch that sets it so
    Keep            \* a patch field that is undefined: leave the column alone

ASSUME ConstantsAssumption ==
    /\ IsFiniteSet(Handlers) /\ Handlers # {}
    /\ MaxReopens \in Nat
    /\ SweepLimit \in Nat \ {0}
    /\ Traffic \subseteq {"status", "assign", "admin", "reply", "rate", "reopen",
                          "message", "remove", "staff", "restart"}
    /\ Null # Keep
    /\ Null \notin Emps
    /\ Keep \notin Emps

VARIABLES
    life,           \* per murojaat: not yet filed, in the table, hard-deleted
    row,            \* per murojaat: the columns of its row
    answered,       \* per murojaat: an EMPLOYEE message is on its thread
    audit,          \* per murojaat: toStatus of the last event that has one
    alerts,         \* per murojaat: SLA alerts sent for the current deadline
    staff,          \* per employee: active, archived or purged
    sweep,          \* rows the running SLA sweep has still to update
    task            \* per handler: what it is in the middle of

vars == <<life, row, answered, audit, alerts, staff, sweep, task>>
-----------------------------------------------------------------------------
Statuses == {"NEW", "IN_PROGRESS", "RESOLVED", "REJECTED"}
Open == {"NEW", "IN_PROGRESS"}
Closed == {"RESOLVED", "REJECTED"}
NoStatus == "none"

\* resolvedAt against the reopening window: unset, within it, past it.
Stamps == {"unset", "recent", "old"}

\* A reason or answer: absent, shorter than MIN_REASON_LENGTH, long enough.
Notes == {"absent", "short", "full"}

Row == [status : Statuses, assignee : Emps \cup {Null}, resolved : Stamps,
        rated : BOOLEAN, reopens : Nat, escalated : BOOLEAN, overdue : BOOLEAN]

NewRow == [status |-> "NEW", assignee |-> Null, resolved |-> "unset",
           rated |-> FALSE, reopens |-> 0, escalated |-> FALSE, overdue |-> FALSE]

\* pc names the handler and, after its reads, what it is about to do.
Reads == {"status", "assign", "current"}
Writes == {"status:commit", "assign:commit", "unassign:commit",
           "reply:commit", "rate:commit", "reopen:commit"}
Task == [pc : Reads \cup Writes \cup {"status:count"}, app : Apps,
         to : Statuses \cup {NoStatus}, note : Notes,
         emp : Emps \cup {Null, Keep}, seen : Statuses]
Idle == [pc |-> "idle"]

TypeOK ==
    /\ life \in [Apps -> {"unfiled", "filed", "deleted"}]
    /\ row \in [Apps -> Row]
    /\ answered \in [Apps -> BOOLEAN]
    /\ audit \in [Apps -> Statuses]
    /\ alerts \in [Apps -> Nat]
    /\ staff \in [Emps -> {"active", "archived", "purged"}]
    /\ sweep \in SUBSET Apps
    /\ task \in [Handlers -> Task \cup {Idle}]

Init ==
    /\ life = [a \in Apps |-> "unfiled"]
    /\ row = [a \in Apps |-> NewRow]
    /\ answered = [a \in Apps |-> FALSE]
    /\ audit = [a \in Apps |-> "NEW"]
    /\ alerts = [a \in Apps |-> 0]
    /\ staff = [e \in Emps |-> "active"]
    /\ sweep = {}
    /\ task = [p \in Handlers |-> Idle]
-----------------------------------------------------------------------------
(***************************************************************************)
(* The rules.  A definition whose name ends in Bug is a plausible mistake  *)
(* in the one after it; PROJECT.json says which property finds it.         *)
(***************************************************************************)
AllowedBug(s) == IF s \in {"RESOLVED", "REJECTED"} THEN {"IN_PROGRESS"} ELSE Statuses \ {s}

Allowed(s) ==
    CASE s = "NEW"         -> {"IN_PROGRESS", "RESOLVED", "REJECTED"}
      [] s = "IN_PROGRESS" -> {"RESOLVED", "REJECTED"}
      [] s = "RESOLVED"    -> {"IN_PROGRESS"}
      [] s = "REJECTED"    -> {}

\* updateStatus refuses before it looks at the thread.
Refused(r, t) ==
    /\ t.to # r.status
    /\ \/ t.to \notin Allowed(r.status)
       \/ t.to = "IN_PROGRESS" /\ t.emp = Keep /\ r.assignee = Null
       \/ t.to = "REJECTED" /\ t.note # "full"

MustCountBug(r, t) == FALSE

\* ... and when RESOLVED comes without an answer it counts the staff's messages.
MustCount(r, t) == t.to = "RESOLVED" /\ t.to # r.status /\ t.note # "full"

MayReopenBug(r) == r.status = "RESOLVED" /\ r.resolved # "old" /\ r.reopens <= MaxReopens
MayReopen(r) == r.status = "RESOLVED" /\ r.resolved # "old" /\ r.reopens < MaxReopens

LateBug(a) == life[a] = "filed" /\ row[a].status \in Open /\ row[a].overdue

LateNewBug(a) == life[a] = "filed" /\ row[a].status = "NEW" /\ row[a].overdue /\ ~row[a].escalated

\* The SLA watcher's WHERE clause.
Late(a) ==
    /\ life[a] = "filed"
    /\ row[a].status \in Open
    /\ row[a].overdue
    /\ ~row[a].escalated
-----------------------------------------------------------------------------
(***************************************************************************)
(* Steps of a handler.                                                     *)
(***************************************************************************)
Continue(p, t) == task' = [task EXCEPT ![p] = t]
Return(p) == Continue(p, Idle)

At(p, pc) == task[p].pc = pc

SameRow == UNCHANGED <<life, row, answered, audit, alerts, staff, sweep>>

\* Once checked, only whether a note goes on the thread still matters.
Posted(r, t) == IF t.to # r.status /\ t.note # "absent" THEN "full" ELSE "absent"

\* updateStatus: findOne and the checks on what it returned.
StatusRead(p, t) ==
    LET r == row[t.app] IN
    /\ IF life[t.app] # "filed" \/ Refused(r, t)
       THEN Return(p)
       ELSE Continue(p, [t EXCEPT !.seen = r.status, !.note = Posted(r, t),
                !.pc = IF MustCount(r, t) THEN "status:count" ELSE "status:commit"])
    /\ SameRow

\* updateStatus: the count of EMPLOYEE messages, a second round trip.
StatusCount(p) ==
    /\ At(p, "status:count")
    /\ IF answered[task[p].app]
       THEN Continue(p, [task[p] EXCEPT !.pc = "status:commit"])
       ELSE Return(p)
    /\ SameRow

\* A write fails when the row was deleted or the employee purged meanwhile.
Writable(t) == life[t.app] = "filed" /\ (t.emp \in Emps => staff[t.emp] # "purged")

\* Of the columns an assignment may set.
Assigned(r, t) == IF t.emp \in Emps THEN t.emp ELSE r.assignee

StatusRowBug(r, t) ==                     \* keeps resolvedAt when it is reopened
    [r EXCEPT !.status = t.to, !.assignee = Assigned(r, t),
              !.resolved = IF t.to # t.seen /\ t.to = "RESOLVED" THEN "recent" ELSE @,
              !.rated = IF t.seen = "RESOLVED" /\ t.to = "IN_PROGRESS" THEN FALSE ELSE @]

StatusRow(r, t) ==
    LET changed == t.to # t.seen
        adminReopen == t.seen = "RESOLVED" /\ t.to = "IN_PROGRESS"
    IN  [r EXCEPT
          !.status = t.to,
          !.assignee = Assigned(r, t),
          !.resolved = IF changed /\ t.to = "RESOLVED" THEN "recent"
                       ELSE IF changed /\ t.to = "IN_PROGRESS" THEN "unset" ELSE @,
          !.overdue = IF adminReopen THEN FALSE ELSE @,
          !.escalated = IF adminReopen THEN FALSE ELSE @,
          !.rated = IF adminReopen THEN FALSE ELSE @]

\* updateStatus: the transaction.  What changed is judged by what was read.
StatusCommit(p) ==
    LET t == task[p]
        a == t.app
        changed == t.to # t.seen
        adminReopen == t.seen = "RESOLVED" /\ t.to = "IN_PROGRESS"
    IN
    /\ At(p, "status:commit")
    /\ IF ~Writable(t)
       THEN UNCHANGED <<row, answered, audit, alerts>>
       ELSE /\ row' = [row EXCEPT ![a] = StatusRow(@, t)]
            /\ answered' = [answered EXCEPT ![a] = @ \/ (changed /\ t.note # "absent")]
            /\ audit' = [audit EXCEPT ![a] = IF changed THEN t.to ELSE @]
            /\ alerts' = [alerts EXCEPT ![a] = IF adminReopen THEN 0 ELSE @]
    /\ Return(p)
    /\ UNCHANGED <<life, staff, sweep>>

\* After an assignment the admin path looks at the status it may have moved.
AfterAssign(t) ==
    IF t.to = NoStatus THEN Idle ELSE [t EXCEPT !.pc = "current", !.emp = Keep, !.seen = "NEW"]

\* assign: findOne.
AssignRead(p, t) ==
    /\ IF life[t.app] # "filed" THEN Return(p)
       ELSE Continue(p, [t EXCEPT !.pc = "assign:commit", !.seen = row[t.app].status])
    /\ SameRow

\* A murojaat READ as NEW is put to work when an employee gets it.
Starts(t) == t.emp \in Emps /\ t.seen = "NEW"

AssignedRow(r, t) == [r EXCEPT !.assignee = Assigned(r, t),
                               !.status = IF Starts(t) THEN "IN_PROGRESS" ELSE @]

\* assign: the transaction.
AssignCommit(p) ==
    LET t == task[p]
        a == t.app
    IN
    /\ At(p, "assign:commit")
    /\ IF ~Writable(t)
       THEN /\ UNCHANGED <<row, audit>>
            /\ Return(p)
       ELSE /\ row' = [row EXCEPT ![a] = AssignedRow(@, t)]
            /\ audit' = [audit EXCEPT ![a] = IF Starts(t) THEN "IN_PROGRESS" ELSE @]
            /\ Continue(p, AfterAssign(t))
    /\ UNCHANGED <<life, answered, alerts, staff, sweep>>

\* The admin path unassigns: assignee only, whatever the status is by then.
UnassignCommit(p) ==
    LET t == task[p] IN
    /\ At(p, "unassign:commit")
    /\ IF life[t.app] # "filed"
       THEN UNCHANGED row /\ Return(p)
       ELSE /\ row' = [row EXCEPT ![t.app] = [@ EXCEPT !.assignee = Null]]
            /\ Continue(p, AfterAssign(t))
    /\ UNCHANGED <<life, answered, audit, alerts, staff, sweep>>

\* PATCH /requests/:id reads the murojaat and routes the patch.
AdminPatch(p, t) ==
    LET r == row[t.app] IN
    /\ IF life[t.app] # "filed" THEN Return(p)
       ELSE Continue(p,
              IF t.emp \in Emps /\ t.emp # r.assignee
              THEN [t EXCEPT !.pc = "assign"]
              ELSE IF t.emp = Null /\ r.assignee # Null
              THEN [t EXCEPT !.pc = "unassign:commit"]
              ELSE AfterAssign(t))
    /\ SameRow

\* ... re-reads the status, and calls updateStatus only if it must move.
AdminCurrent(p) ==
    LET t == task[p] IN
    /\ At(p, "current")
    /\ IF life[t.app] # "filed" \/ row[t.app].status = t.to
       THEN Return(p)
       ELSE Continue(p, [t EXCEPT !.pc = "status"])
    /\ SameRow

\* reply: findOne (and the sender's name); "to" is RESOLVED for resolve: true.
ReplyRead(p, t) ==
    /\ IF life[t.app] # "filed" THEN Return(p)
       ELSE Continue(p, [t EXCEPT !.pc = "reply:commit", !.seen = row[t.app].status])
    /\ SameRow

\* A reply resolves an open murojaat when told to, and puts a NEW one to work.
Resolves(t) == t.to = "RESOLVED" /\ t.seen \in Open
Replied(s, t) == IF Resolves(t) THEN "RESOLVED"
                 ELSE IF t.seen = "NEW" THEN "IN_PROGRESS" ELSE s

RepliedRow(r, t) == [r EXCEPT !.status = Replied(@, t),
                              !.resolved = IF Resolves(t) THEN "recent" ELSE @]

\* reply: the message, its events and the status, in one transaction.
ReplyCommit(p) ==
    LET t == task[p]
        a == t.app
    IN
    /\ At(p, "reply:commit")
    /\ IF life[a] # "filed" THEN UNCHANGED <<row, answered, audit>>
       ELSE /\ row' = [row EXCEPT ![a] = RepliedRow(@, t)]
            /\ answered' = [answered EXCEPT ![a] = TRUE]
            /\ audit' = [audit EXCEPT ![a] = Replied(@, t)]
    /\ Return(p)
    /\ UNCHANGED <<life, alerts, staff, sweep>>

\* rate: only a murojaat that is RESOLVED when it is read.
RateRead(p, t) ==
    /\ IF life[t.app] = "filed" /\ row[t.app].status = "RESOLVED"
       THEN Continue(p, [t EXCEPT !.pc = "rate:commit", !.seen = "RESOLVED"])
       ELSE Return(p)
    /\ SameRow

RateCommit(p) ==
    LET a == task[p].app IN
    /\ At(p, "rate:commit")
    /\ row' = IF life[a] = "filed" THEN [row EXCEPT ![a] = [@ EXCEPT !.rated = TRUE]] ELSE row
    /\ Return(p)
    /\ UNCHANGED <<life, answered, audit, alerts, staff, sweep>>

\* reopen: RESOLVED, within the window, below the cap -- when it is read.
ReopenRead(p, t) ==
    /\ IF life[t.app] = "filed" /\ MayReopen(row[t.app])
       THEN Continue(p, [t EXCEPT !.pc = "reopen:commit", !.seen = "RESOLVED"])
       ELSE Return(p)
    /\ SameRow

ReopenedMutedBug(r) ==                    \* keeps escalatedAt under the new deadline
    [r EXCEPT !.status = "IN_PROGRESS", !.resolved = "unset", !.rated = FALSE,
              !.reopens = @ + 1, !.overdue = FALSE]

ReopenedRow(r) ==
    [r EXCEPT !.status = "IN_PROGRESS", !.resolved = "unset", !.rated = FALSE,
              !.reopens = @ + 1, !.overdue = FALSE, !.escalated = FALSE]

ReopenCommitBug(p) ==                     \* writes no event
    LET a == task[p].app IN
    /\ At(p, "reopen:commit")
    /\ row' = IF life[a] = "filed" THEN [row EXCEPT ![a] = ReopenedRow(@)] ELSE row
    /\ Return(p)
    /\ UNCHANGED <<life, answered, audit, alerts, staff, sweep>>

\* reopen: the transaction; the counter is incremented by the database.
ReopenCommit(p) ==
    LET a == task[p].app IN
    /\ At(p, "reopen:commit")
    /\ IF life[a] # "filed" THEN UNCHANGED <<row, audit, alerts>>
       ELSE /\ row' = [row EXCEPT ![a] = ReopenedRow(@)]
            /\ audit' = [audit EXCEPT ![a] = "IN_PROGRESS"]
            /\ alerts' = [alerts EXCEPT ![a] = 0]
    /\ Return(p)
    /\ UNCHANGED <<life, answered, staff, sweep>>
-----------------------------------------------------------------------------
(***************************************************************************)
(* Requests.  A handler's first read happens as the request is taken up.   *)
(***************************************************************************)
Request(a, to, note, emp) ==
    [pc |-> "status", app |-> a, to |-> to, note |-> note, emp |-> emp, seen |-> "NEW"]

Patch(p) ==
    \/ "status" \in Traffic
       /\ \E a \in Apps, s \in Statuses, n \in Notes, e \in Emps \cup {Keep} :
             StatusRead(p, Request(a, s, n, e))
    \/ "assign" \in Traffic                \* Keep: to a department only
       /\ \E a \in Apps, e \in Emps \cup {Keep} :
             AssignRead(p, Request(a, NoStatus, "absent", e))
    \/ "admin" \in Traffic
       /\ \E a \in Apps, s \in Statuses \cup {NoStatus}, n \in Notes, e \in Emps \cup {Null, Keep} :
             /\ s = NoStatus => n = "absent"       \* a note without a status is not looked at
             /\ AdminPatch(p, Request(a, s, n, e))

Converse(p) ==
    \/ "reply" \in Traffic
       /\ \E a \in Apps, s \in {"RESOLVED", NoStatus} : ReplyRead(p, Request(a, s, "absent", Keep))
    \/ "rate" \in Traffic
       /\ \E a \in Apps : RateRead(p, Request(a, NoStatus, "absent", Keep))
    \/ "reopen" \in Traffic
       /\ \E a \in Apps : ReopenRead(p, Request(a, NoStatus, "absent", Keep))

Arrive(p) == At(p, "idle") /\ (Patch(p) \/ Converse(p))

\* create: the row and its CREATED event in one transaction.
File(p, a) ==
    /\ At(p, "idle")
    /\ life[a] = "unfiled"
    /\ life' = [life EXCEPT ![a] = "filed"]
    /\ UNCHANGED <<row, answered, audit, alerts, staff, sweep, task>>

\* addMessage by somebody who is not a citizen: one write, no status rule.
StaffMessage(p, a) ==
    /\ "message" \in Traffic /\ At(p, "idle")
    /\ life[a] = "filed"
    /\ answered' = [answered EXCEPT ![a] = TRUE]
    /\ UNCHANGED <<life, row, audit, alerts, staff, sweep, task>>

\* DELETE /requests/:id: the row goes, and its messages and events with it.
Remove(p, a) ==
    /\ "remove" \in Traffic /\ At(p, "idle")
    /\ life[a] = "filed"
    /\ life' = [life EXCEPT ![a] = "deleted"]
    /\ row' = [row EXCEPT ![a] = NewRow]
    /\ answered' = [answered EXCEPT ![a] = FALSE]
    /\ audit' = [audit EXCEPT ![a] = "NEW"]
    /\ alerts' = [alerts EXCEPT ![a] = 0]
    /\ UNCHANGED <<staff, sweep, task>>

\* Released rows of an archived employee go back to NEW, without an event.
ReleasedRow(r, e) ==
    IF r.assignee = e /\ r.status \in Open
    THEN [r EXCEPT !.assignee = Null, !.status = "NEW"] ELSE r

Archive(p, e) ==
    /\ "staff" \in Traffic /\ At(p, "idle")
    /\ staff[e] # "purged"
    /\ staff' = [staff EXCEPT ![e] = "archived"]
    /\ row' = [a \in Apps |-> IF life[a] = "filed" THEN ReleasedRow(row[a], e) ELSE row[a]]
    /\ UNCHANGED <<life, answered, audit, alerts, sweep, task>>

Restore(p, e) ==
    /\ "staff" \in Traffic /\ At(p, "idle")
    /\ staff[e] # "purged"
    /\ staff' = [staff EXCEPT ![e] = "active"]
    /\ UNCHANGED <<life, row, answered, audit, alerts, sweep, task>>

\* purge: the foreign key sets the assignee of the remaining rows to NULL.  The
\* look at isActive and the delete are taken together.
Purge(p, e) ==
    /\ "staff" \in Traffic /\ At(p, "idle")
    /\ staff[e] = "archived"
    /\ staff' = [staff EXCEPT ![e] = "purged"]
    /\ row' = [a \in Apps |-> IF row[a].assignee = e
                              THEN [row[a] EXCEPT !.assignee = Null] ELSE row[a]]
    /\ UNCHANGED <<life, answered, audit, alerts, sweep, task>>
-----------------------------------------------------------------------------
(***************************************************************************)
(* The SLA watcher: a cron job whose query and updates are separate round  *)
(* trips.  A sweep ends before the next one starts (they are ten minutes   *)
(* apart).  An update of a deleted row throws and abandons the sweep.      *)
(***************************************************************************)
SweepRead ==
    /\ sweep = {}
    /\ LET late == {a \in Apps : Late(a)} IN
       sweep' \in {S \in SUBSET late :
                     IF Cardinality(late) <= SweepLimit THEN S = late
                     ELSE Cardinality(S) = SweepLimit}
    /\ UNCHANGED <<life, row, answered, audit, alerts, staff, task>>

EscalatedRow(r) == [r EXCEPT !.escalated = TRUE]

SweepUpdate(a) ==
    /\ a \in sweep
    /\ IF life[a] = "filed"
       THEN /\ row' = [row EXCEPT ![a] = EscalatedRow(@)]
            /\ alerts' = [alerts EXCEPT ![a] = @ + 1]
            /\ sweep' = sweep \ {a}
       ELSE sweep' = {} /\ UNCHANGED <<row, alerts>>
    /\ UNCHANGED <<life, answered, audit, staff, task>>

\* The process is restarted: its handlers and its sweep are gone, and an update
\* the sweep had sent may have been applied without the alert that follows it.
Restart ==
    /\ "restart" \in Traffic
    /\ task' = [p \in Handlers |-> Idle]
    /\ sweep' = {}
    /\ \/ UNCHANGED row
       \/ \E a \in sweep : life[a] = "filed" /\ row' = [row EXCEPT ![a] = EscalatedRow(@)]
    /\ UNCHANGED <<life, answered, audit, alerts, staff>>

\* Time: the deadline passes; a week goes by since the resolution.
DeadlinePasses(a) ==
    /\ life[a] = "filed" /\ ~row[a].overdue
    /\ row' = [row EXCEPT ![a] = [@ EXCEPT !.overdue = TRUE]]
    /\ UNCHANGED <<life, answered, audit, alerts, staff, sweep, task>>

WindowPasses(a) ==
    /\ life[a] = "filed" /\ row[a].resolved = "recent"
    /\ row' = [row EXCEPT ![a] = [@ EXCEPT !.resolved = "old"]]
    /\ UNCHANGED <<life, answered, audit, alerts, staff, sweep, task>>
-----------------------------------------------------------------------------
\* The next step of a request that is being served.
Proceed(p) ==
    \/ At(p, "status") /\ StatusRead(p, task[p])
    \/ StatusCount(p)
    \/ StatusCommit(p)
    \/ At(p, "assign") /\ AssignRead(p, task[p])
    \/ AssignCommit(p)
    \/ UnassignCommit(p)
    \/ AdminCurrent(p)
    \/ ReplyCommit(p)
    \/ RateCommit(p)
    \/ ReopenCommit(p)

Sweep == SweepRead \/ \E a \in Apps : SweepUpdate(a)

Next ==
    \/ \E p \in Handlers : Arrive(p) \/ Proceed(p)
    \/ \E p \in Handlers, a \in Apps : File(p, a) \/ StaffMessage(p, a) \/ Remove(p, a)
    \/ \E p \in Handlers, e \in Emps : Archive(p, e) \/ Restore(p, e) \/ Purge(p, e)
    \/ Sweep \/ Restart
    \/ \E a \in Apps : DeadlinePasses(a) \/ WindowPasses(a)

Spec == Init /\ [][Next]_vars

\* The event loop finishes what it started and the cron job keeps firing;
\* nobody has to send a request.
FairSpec ==
    /\ Spec
    /\ \A p \in Handlers : WF_vars(Proceed(p))
    /\ WF_vars(Sweep)
-----------------------------------------------------------------------------
(***************************************************************************)
(* What must hold however the handlers interleave.                         *)
(***************************************************************************)

\* A closed murojaat has an answer or a reason on its thread: the note written
\* by updateStatus, the reply that resolved it, or the staff's messages it
\* counted, though the count and the write are different round trips.
ClosedHasAnswer ==
    \A a \in Apps : life[a] = "filed" /\ row[a].status \in Closed => answered[a]

\* "Escalated ONCE": a deadline is reported at most once, though a sweep works
\* on rows that handlers reopen, close or delete under it.
AlertedOnce == \A a \in Apps : alerts[a] <= 1

\* The cap on reopening is read before the transaction that counts it, so
\* requests in flight together can pass it, but by no more than their number.
ReopenOvershoot ==
    \A a \in Apps : row[a].reopens <= MaxReopens + Cardinality(Handlers) - 1

\* An open murojaat past its deadline that bears no mark of a report is reported for
\* that deadline, unless it is closed, deleted or given a new one first: whatever else
\* is late, however many rows one sweep takes.  (`alerts` counts from the moment the
\* mark was cleared.)  It promises nothing for a deadline whose mark a sweep set before
\* it passed, having selected the murojaat for an earlier one: EscalatedIsOverdue.
OverdueIsReported ==
    \A a \in Apps :
        (life[a] = "filed" /\ row[a].status \in Open /\ row[a].overdue /\ ~row[a].escalated)
        ~> (alerts[a] > 0 \/ life[a] # "filed" \/ row[a].status \notin Open \/ ~row[a].overdue)
-----------------------------------------------------------------------------
(***************************************************************************)
(* What holds while requests about a murojaat are served one at a time     *)
(* (one handler), and the SLA sweep still runs under them.                 *)
(***************************************************************************)

\* resolvedAt is set exactly while the murojaat is resolved, so the reopening window
\* always has a start and the statistics never count an open one; and a rating is
\* feedback on the resolution the citizen sees now, gone as soon as the work starts
\* again.
MarksFollowStatus ==
    \A a \in Apps :
        /\ row[a].resolved # "unset" <=> row[a].status = "RESOLVED"
        /\ row[a].rated => row[a].status = "RESOLVED"

\* The audit history tells the status; only the release of an archived
\* employee's murojaat moves it (to NEW) without an event.
AuditTellsStatus == \A a \in Apps : row[a].status # audit[a] => row[a].status = "NEW"

\* Every murojaat keeps the promise of MurojaatLifecycle until it is deleted.
Promise(a) == INSTANCE MurojaatLifecycle WITH
    status <- row[a].status, answered <- answered[a], reopens <- row[a].reopens

KeepsPromise ==
    /\ \A a \in Apps : Promise(a)!Init
    /\ [][\A a \in Apps : life'[a] = "deleted" \/ [Promise(a)!Next]_(Promise(a)!vars)]_vars
-----------------------------------------------------------------------------
(***************************************************************************)
(* What the repository says and the code does not keep.                    *)
(***************************************************************************)

\* ALLOWED_TRANSITIONS gives REJECTED no successor: a rejected murojaat stays so.
RejectedIsFinal ==
    [][\A a \in Apps : row[a].status = "REJECTED" /\ life'[a] = "filed"
                         => row'[a].status = "REJECTED"]_vars

\* The reopening cap, "at most this many times": requests that read it together pass it.
ReopenCapped == \A a \in Apps : row[a].reopens <= MaxReopens

\* "An open murojaat past its deadline is escalated": the sweep marks whatever it has
\* selected, also what was closed or reopened under a new deadline since; in the second
\* case the new deadline is then never reported.
EscalatedIsOverdue ==
    [][\A a \in Apps : alerts'[a] > alerts[a] => row[a].status \in Open /\ row[a].overdue]_vars

\* "cannot move to IN_PROGRESS without an assignee": whoever moves it there.
StartsWithAssignee ==
    [][\A a \in Apps : row[a].status = "NEW" /\ row'[a].status = "IN_PROGRESS"
                         => row'[a].assignee # Null]_vars

\* "His open murojaats return to unassigned, to be given to somebody else": no
\* closed murojaat is put back to work with somebody who was let go.
ReopenedToActive ==
    [][\A a \in Apps : row[a].status \in Closed /\ row'[a].status \in Open
                         /\ life'[a] = "filed" /\ row'[a].assignee # Null
                         => staff[row'[a].assignee] = "active"]_vars
=============================================================================

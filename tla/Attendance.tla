----------------------------- MODULE Attendance -----------------------------
(***************************************************************************)
(* Attendance (AttendanceService): the scans of one employee, each checked *)
(* against the scans of its day and written in separate round trips, and   *)
(* the three views an admin reads: the board of a day (today), the         *)
(* timesheet, and the report.  The views also depend on the calendar and   *)
(* on the leave that has been approved by the time somebody looks, so they *)
(* are operators of both.                                                  *)
(*                                                                         *)
(* Time is counted in hours of DayLength to a day.  Whether a scan is      *)
(* valid (face and place) is a choice of the scan.                         *)
(***************************************************************************)
EXTENDS Integers, FiniteSets

CONSTANTS
    Scans,          \* requests under way at one time
    DayLength,      \* hours of a day
    Deadline,       \* hour of the day: work starts, and the grace period
    WorkEnd,        \* hour of the day
    MaxHour,        \* bound: hours that pass
    MaxRows,        \* bound: rows written
    None

VARIABLES
    now,            \* the clock
    rows,           \* attendanceRecord, numbered as they are written
    scan            \* per request: what recordScan is about to do

vars == <<now, rows, scan>>
-----------------------------------------------------------------------------
Hours == 0..MaxHour
Day(t) == t \div DayLength
HourOf(t) == t % DayLength
Kinds == {"CHECK_IN", "CHECK_OUT"}
Idle == [step |-> "idle"]
Row == [n : 1..MaxRows, type : Kinds, recordedAt : Hours, isValid : BOOLEAN, isLate : BOOLEAN]

TypeOK ==
    /\ now \in Hours
    /\ rows \subseteq Row
    /\ scan \in [Scans -> [step : {"check", "write"}, type : Kinds, recordedAt : Hours] \cup {Idle}]

Init == now = 0 /\ rows = {} /\ scan = [r \in Scans |-> Idle]
-----------------------------------------------------------------------------
(***************************************************************************)
(* recordScan.  A definition whose name ends in Bug is a plausible mistake *)
(* in the one after it; PROJECT.json says which property finds it.         *)
(***************************************************************************)
OfDay(d, type) == {x \in rows : Day(x.recordedAt) = d /\ x.type = type}

HasBug(d, type) == OfDay(d, type) # {}    \* a failed scan counts

\* "Only a valid scan counts as already checked in or out".
Has(d, type) == \E x \in OfDay(d, type) : x.isValid

\* The employee is read, and the time is taken.
Arrive(r, type) ==
    /\ scan[r] = Idle
    /\ scan' = [scan EXCEPT ![r] = [step |-> "check", type |-> type, recordedAt |-> now]]
    /\ UNCHANGED <<now, rows>>

\* The scans of the day are read: the double-scan guard.
Check(r) ==
    /\ scan[r].step = "check"
    /\ LET d == Day(scan[r].recordedAt)
           accepted == IF scan[r].type = "CHECK_IN" THEN ~Has(d, "CHECK_IN")
                       ELSE Has(d, "CHECK_IN") /\ ~Has(d, "CHECK_OUT")
       IN scan' = IF accepted THEN [scan EXCEPT ![r].step = "write"]
                  ELSE [scan EXCEPT ![r] = Idle]
    /\ UNCHANGED <<now, rows>>

\* The face and the place are judged, and the row is written.
Write(r, valid) ==
    /\ scan[r].step = "write" /\ Cardinality(rows) < MaxRows
    /\ LET at == scan[r].recordedAt IN
       rows' = rows \cup {[n |-> Cardinality(rows) + 1, type |-> scan[r].type, recordedAt |-> at,
                           isValid |-> valid,
                           isLate |-> scan[r].type = "CHECK_IN" /\ HourOf(at) > Deadline]}
    /\ scan' = [scan EXCEPT ![r] = Idle]
    /\ UNCHANGED now

\* A request that fails leaves no row.
Fail(r) ==
    /\ scan[r] # Idle
    /\ scan' = [scan EXCEPT ![r] = Idle]
    /\ UNCHANGED <<now, rows>>

Passes == now < MaxHour /\ now' = now + 1 /\ UNCHANGED <<rows, scan>>

Next ==
    \/ Passes
    \/ \E r \in Scans :
          \/ \E type \in Kinds : Arrive(r, type)
          \/ Check(r) \/ Fail(r)
          \/ \E valid \in BOOLEAN : Write(r, valid)

Spec == Init /\ [][Next]_vars
-----------------------------------------------------------------------------
(***************************************************************************)
(* The views of a day, under a calendar: whether it is a working day,      *)
(* whether leave covers it (wholeDay), and the hours of a permission       *)
(* (window), if any.                                                       *)
(***************************************************************************)
Windows == {w \in [start : 0..DayLength, end : 0..DayLength] : w.start < w.end}
Calendars == [isWorkday : BOOLEAN, wholeDay : BOOLEAN, window : Windows \cup {None}]

First(S) == CHOOSE x \in S : \A y \in S : x.recordedAt <= y.recordedAt
Last(S) == CHOOSE x \in S : \A y \in S : x.recordedAt >= y.recordedAt
Valid(d, type) == {x \in OfDay(d, type) : x.isValid}

\* buildDayEntry, of the rows of the day in the order of recordedAt.
CheckIn(d) == IF Valid(d, "CHECK_IN") = {} THEN None ELSE First(Valid(d, "CHECK_IN"))
CheckOut(d) == IF Valid(d, "CHECK_OUT") = {} THEN None ELSE Last(Valid(d, "CHECK_OUT"))

\* applyCalendar: lateness is excused ...
LateExcused(d, c) ==
    /\ CheckIn(d) # None /\ CheckIn(d).isLate
    /\ c.window # None /\ HourOf(CheckIn(d).recordedAt) <= c.window.end
IsLate(d, c) == CheckIn(d) # None /\ CheckIn(d).isLate /\ ~LateExcused(d, c)

\* ... and a day without a check-in is leave, a day off, or absence.
Status(d, c) ==
    IF CheckIn(d) = None
    THEN IF c.wholeDay THEN "leave" ELSE IF c.isWorkday THEN "absent" ELSE "dayoff"
    ELSE IF CheckOut(d) # None THEN "left" ELSE IF IsLate(d, c) THEN "late" ELSE "present"

LeftEarly(d) == CheckOut(d) # None /\ HourOf(CheckOut(d).recordedAt) < WorkEnd
EarlyExcused(d, c) == c.window # None /\ HourOf(CheckOut(d).recordedAt) >= c.window.start

\* today, timesheet: whether the day counts as left early.
BoardEarly(d, c) == LeftEarly(d) /\ ~EarlyExcused(d, c)
SheetEarly(d, c) == LeftEarly(d) /\ c.isWorkday /\ ~EarlyExcused(d, c)

\* buildReport, over the same rows: who was present, late on any check-in, and the
\* last check-out.
Present(d) == Valid(d, "CHECK_IN") # {}
ReportLate(d) == \E x \in Valid(d, "CHECK_IN") : x.isLate
LastCheckOut(d) == IF Valid(d, "CHECK_OUT") = {} THEN 0 - 1
                   ELSE Last(Valid(d, "CHECK_OUT")).recordedAt
-----------------------------------------------------------------------------
Days == {Day(t) : t \in Hours}

\* However scans fail, overlap and straddle midnight, and whatever the calendar, the
\* views do not contradict each other: who is absent, on leave or off in one is not
\* present in another, who has left a day has come on it, and lateness on the board is
\* in the report.
ViewsAgree ==
    \A d \in Days, c \in Calendars :
        /\ Present(d) <=> Status(d, c) \in {"present", "late", "left"}
        /\ Status(d, c) = "left" <=> LastCheckOut(d) >= 0
        /\ IsLate(d, c) => ReportLate(d)
-----------------------------------------------------------------------------
(***************************************************************************)
(* What the repository says and the code does not keep.                    *)
(***************************************************************************)
\* "At most one CHECK_IN and one CHECK_OUT per local day".
OncePerDay == \A d \in Days, type \in Kinds : Cardinality(Valid(d, type)) <= 1

\* "Lateness inside a permitted window is excused": one that was over before the window
\* began is not inside it.
ExcusedInside ==
    \A d \in Days, c \in Calendars :
        LateExcused(d, c) => HourOf(CheckIn(d).recordedAt) >= c.window.start

\* "Leaving inside a permitted hours-window is not early": one that leaves after the
\* window does not leave inside it.
EarlyInside ==
    \A d \in Days, c \in Calendars :
        LeftEarly(d) /\ EarlyExcused(d, c) => HourOf(CheckOut(d).recordedAt) <= c.window.end

\* The timesheet has "exactly the same rules as the daily board".
SameRules == \A d \in Days, c \in Calendars : BoardEarly(d, c) = SheetEarly(d, c)
=============================================================================

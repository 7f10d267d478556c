------------------------------ MODULE MCRecords ------------------------------
(***************************************************************************)
(* Requests about one record that interleave at every await, and the jobs  *)
(* that watch the database on a timer, for TLC: murojaats and the sweep of *)
(* the overdue ones (Applications), a conversation (Chat), the attendance  *)
(* of an employee (Attendance), where an employee is and who watches it    *)
(* (Locations).  They share no state, so they are checked side by side:    *)
(* focus says which of them moves (one of Parts), and the states to visit  *)
(* are the sum of theirs.  Each keeps the fairness its own module states.  *)
(***************************************************************************)
EXTENDS Applications, TLC

CONSTANT Parts
CONSTANTS Msgs, Workers, MaxEdits
CONSTANTS Scans, DayLength, Deadline, WorkEnd, MaxHour, MaxRows
CONSTANTS MaxPoints, Posts, MaxStops

VARIABLES there, archived, state, from, edits, news, job
VARIABLES now, rows, scan
VARIABLES
    recorded, running, starting, stopping, streams, handle, timer, stops, disk, post,
    places, last, alerted, notices, active, aged, watching
VARIABLE focus

C == INSTANCE Chat WITH Nothing <- Null
A == INSTANCE Attendance WITH None <- Null
L == INSTANCE Locations WITH rows <- places, alerts <- notices, scan <- watching

\* No person is called Null, and no row is: it stands for none.
ASSUME RecordsAssumption ==
    /\ MaxEdits \in Nat /\ Null \notin C!People
    /\ MaxHour \in Nat /\ MaxRows \in Nat /\ Null \notin A!Row
    /\ MaxPoints \in Nat /\ MaxStops \in Nat

chatVars == <<there, archived, state, from, edits, news, job>>
scanVars == <<now, rows, scan>>
placeVars == <<
    recorded, running, starting, stopping, streams, handle, timer, stops, disk, post,
    places, last, alerted, notices, active, aged, watching>>
allVars == <<vars, chatVars, scanVars, placeVars, focus>>

RecordsInit ==
    /\ Init /\ C!Init /\ A!Init /\ L!Init
    /\ focus \in Parts

Murojaats(action) ==
    focus = "murojaats" /\ action /\ UNCHANGED <<chatVars, scanVars, placeVars, focus>>
Places(action) ==
    focus = "places" /\ action /\ UNCHANGED <<vars, chatVars, scanVars, focus>>

RecordsNext ==
    \/ Murojaats(Next)
    \/ focus = "conversation" /\ C!Next /\ UNCHANGED <<vars, scanVars, placeVars, focus>>
    \/ focus = "attendance" /\ A!Next /\ UNCHANGED <<vars, chatVars, placeVars, focus>>
    \/ Places(L!Next)

RecordsSpec == RecordsInit /\ [][RecordsNext]_allVars

WatchersSpec ==
    /\ RecordsSpec
    /\ \A p \in Handlers : WF_allVars(Murojaats(Proceed(p)))
    /\ WF_allVars(Murojaats(Sweep))
    /\ WF_allVars(Places(L!ScanReads)) /\ WF_allVars(Places(L!ScanAlerts))

Symmetry == Permutations(Handlers) \cup Permutations(Workers) \cup Permutations(Scans)

TypesOK == TypeOK /\ C!TypeOK /\ A!TypeOK /\ L!TypeOK
NewsIsShown == C!NewsIsShown
ViewsAgree == focus = "attendance" => A!ViewsAgree
OneAlertPerSilence == L!OneAlertPerSilence
SilenceIsReported == L!SilenceIsReported
=============================================================================

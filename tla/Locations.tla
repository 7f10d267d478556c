----------------------------- MODULE Locations -----------------------------
(***************************************************************************)
(* Where an employee is: the tracking service of the phone, which posts    *)
(* every fix and keeps on disk what it could not post; the ingest of the   *)
(* server, which stores the points and the last position of the employee;  *)
(* and the watcher that alerts an employee whose position has gone stale.  *)
(*                                                                         *)
(* A point is its number, in the order of recordedAt.  A request may be    *)
(* lost on its way, and its answer on the way back.                        *)
(***************************************************************************)
EXTENDS Naturals, FiniteSets

CONSTANTS
    MaxPoints,      \* bound: fixes of the phone
    Posts,          \* requests under way at one time
    MaxStops        \* bound: times tracking is stopped

VARIABLES
    recorded,       \* fixes so far
    running,        \* _running
    starting,       \* start() waits for the permission (_starting)
    stopping,       \* stop() waits for the end of the stream
    streams,        \* position streams that deliver
    handle,         \* _positionSub is one of them
    timer,          \* _flushTimer is armed
    stops,          \* times stopped
    disk,           \* 'location_outbox_v1'
    post,           \* per request: where it is
    rows,           \* employeeLocation
    last,           \* employee.lastLocationAt, or 0
    alerted,        \* employee.staleAlertedAt is set
    alerts,         \* notifications since the last position was written
    aged,           \* points up to here are older than staleMinutes
    active,         \* employee.isActive
    scan            \* the watcher has selected the employee

phoneVars == <<recorded, running, starting, stopping, streams, handle, timer, stops, disk>>
employeeVars == <<last, alerted, alerts, active>>
vars == <<phoneVars, post, rows, employeeVars, aged, scan>>
-----------------------------------------------------------------------------
Points == 1..MaxPoints
NoPost == [at |-> "free"]
Post == [at : {"sent", "read", "stored", "answered", "over"}, batch : BOOLEAN,
         points : SUBSET Points, seen : Points \cup {0}, awaited : BOOLEAN]
Newest(P) == CHOOSE n \in P : \A m \in P : m <= n

TypeOK ==
    /\ recorded \in 0..MaxPoints
    /\ running \in BOOLEAN /\ starting \in BOOLEAN /\ stopping \in BOOLEAN
    /\ streams \in 0..(MaxStops + 1) /\ handle \in BOOLEAN /\ timer \in BOOLEAN
    /\ stops \in 0..MaxStops
    /\ disk \subseteq Points
    /\ post \in [Posts -> Post \cup {NoPost}]
    /\ rows \subseteq Points
    /\ last \in Points \cup {0} /\ alerted \in BOOLEAN /\ alerts \in Nat /\ active \in BOOLEAN
    /\ aged \in 0..MaxPoints
    /\ scan \in BOOLEAN

Init ==
    /\ recorded = 0
    /\ running = FALSE /\ starting = FALSE /\ stopping = FALSE
    /\ streams = 0 /\ handle = FALSE /\ timer = FALSE /\ stops = 0
    /\ disk = {}
    /\ post = [r \in Posts |-> NoPost]
    /\ rows = {}
    /\ last = 0 /\ alerted = FALSE /\ alerts = 0 /\ active = TRUE
    /\ aged = 0 /\ scan = FALSE
-----------------------------------------------------------------------------
(***************************************************************************)
(* The phone.  A definition whose name ends in Bug is a plausible mistake  *)
(* in the one after it; PROJECT.json says which property finds it.         *)
(***************************************************************************)
Start ==
    /\ ~running /\ ~starting
    /\ starting' = TRUE
    /\ UNCHANGED <<recorded, running, stopping, streams, handle, timer, stops, disk,
                   post, rows, employeeVars, aged, scan>>

\* The permission is there (ok) or not: a stream and a timer.
Started(ok) ==
    /\ starting
    /\ starting' = FALSE
    /\ IF ok /\ ~running
       THEN /\ running' = TRUE
            /\ streams' = streams + 1 /\ handle' = TRUE
            /\ timer' = TRUE
       ELSE UNCHANGED <<running, streams, handle, timer>>
    /\ UNCHANGED <<recorded, stopping, stops, disk, post, rows, employeeVars, aged, scan>>

StopBug ==                                \* a stream or not
    /\ ~stopping /\ stops < MaxStops
    /\ stops' = stops + 1
    /\ running' = FALSE /\ stopping' = TRUE
    /\ streams' = streams - 1
    /\ handle' = FALSE
    /\ UNCHANGED <<recorded, starting, timer, disk, post, rows, employeeVars, aged, scan>>

\* stop: the stream it knows of is cancelled; when that is done the references go.
Stop ==
    /\ ~stopping /\ stops < MaxStops
    /\ stops' = stops + 1
    /\ running' = FALSE /\ stopping' = TRUE
    /\ streams' = IF handle THEN streams - 1 ELSE streams
    /\ handle' = FALSE
    /\ UNCHANGED <<recorded, starting, timer, disk, post, rows, employeeVars, aged, scan>>

Stopped ==
    /\ stopping
    /\ stopping' = FALSE
    /\ handle' = FALSE /\ timer' = FALSE
    /\ UNCHANGED <<recorded, running, starting, streams, stops, disk, post, rows,
                   employeeVars, aged, scan>>

Sends(r, batch, P) ==
    post' = [post EXCEPT ![r] = [at |-> "sent", batch |-> batch, points |-> P, seen |-> 0,
                                 awaited |-> TRUE]]

\* A fix of a stream, or the current one that the timer asks for: posted at once.
Fix(r) ==
    /\ streams > 0 \/ (timer /\ running)
    /\ recorded < MaxPoints /\ post[r].at = "free"
    /\ recorded' = recorded + 1
    /\ Sends(r, FALSE, {recorded + 1})
    /\ UNCHANGED <<running, starting, stopping, streams, handle, timer, stops, disk,
                   rows, employeeVars, aged, scan>>

\* _flushOutbox: all that is on disk, by the timer ...
Tick(r) ==
    /\ timer /\ disk # {} /\ post[r].at = "free"
    /\ Sends(r, TRUE, disk)
    /\ UNCHANGED <<phoneVars, rows, employeeVars, aged, scan>>

\* ... or after a fix has been posted.
FixPosted(r) ==
    /\ post[r].at = "answered" /\ post[r].awaited /\ ~post[r].batch
    /\ IF disk # {} THEN Sends(r, TRUE, disk) ELSE post' = [post EXCEPT ![r] = NoPost]
    /\ UNCHANGED <<phoneVars, rows, employeeVars, aged, scan>>

\* The batch was accepted: the list is removed.
BatchPosted(r) ==
    /\ post[r].at = "answered" /\ post[r].awaited /\ post[r].batch
    /\ disk' = {}
    /\ post' = [post EXCEPT ![r] = NoPost]
    /\ UNCHANGED <<recorded, running, starting, stopping, streams, handle, timer, stops,
                   rows, employeeVars, aged, scan>>

\* No answer: a fix is kept, a batch is still on disk.
GivesUp(r) ==
    /\ post[r].at # "free" /\ post[r].awaited
    /\ disk' = IF post[r].batch THEN disk ELSE disk \cup post[r].points
    /\ post' = IF post[r].at = "answered" THEN [post EXCEPT ![r] = NoPost]
               ELSE [post EXCEPT ![r].awaited = FALSE]
    /\ UNCHANGED <<recorded, running, starting, stopping, streams, handle, timer, stops,
                   rows, employeeVars, aged, scan>>
-----------------------------------------------------------------------------
(***************************************************************************)
(* The server.                                                             *)
(***************************************************************************)
\* A request nobody waits for is lost, or done with.
Forgotten(r) ==
    /\ post[r].at \in {"sent", "answered"} /\ ~post[r].awaited
    /\ post' = [post EXCEPT ![r] = NoPost]
    /\ UNCHANGED <<phoneVars, rows, employeeVars, aged, scan>>

\* ingest, ingestBatch: the employee is read, the points are stored, and the last
\* position is written if they are not older than the one that was read.
Reads(r) ==
    /\ post[r].at = "sent"
    /\ post' = [post EXCEPT ![r].at = "read", ![r].seen = last]
    /\ UNCHANGED <<phoneVars, rows, employeeVars, aged, scan>>

Stores(r) ==
    /\ post[r].at = "read"
    /\ rows' = rows \cup post[r].points
    /\ post' = [post EXCEPT ![r].at = IF Newest(post[r].points) >= post[r].seen
                                      THEN "stored" ELSE "answered"]
    /\ UNCHANGED <<phoneVars, employeeVars, aged, scan>>

WritesLastBug(r) ==                       \* the episode is not over
    /\ post[r].at = "stored"
    /\ last' = Newest(post[r].points)
    /\ alerts' = 0
    /\ post' = [post EXCEPT ![r].at = "answered"]
    /\ UNCHANGED <<phoneVars, rows, alerted, active, aged, scan>>

WritesLast(r) ==
    /\ post[r].at = "stored"
    /\ last' = Newest(post[r].points)
    /\ alerted' = FALSE /\ alerts' = 0
    /\ post' = [post EXCEPT ![r].at = "answered"]
    /\ UNCHANGED <<phoneVars, rows, active, aged, scan>>

IsStaleBug == active /\ last # 0 /\ last <= aged

IsStaleOnceBug == active /\ ~alerted /\ last # 0 /\ last = aged   \* since the last scan only

\* Those who were reporting and stopped, and have not been told.
IsStale == active /\ ~alerted /\ last # 0 /\ last <= aged

ScanReads ==
    /\ ~scan /\ IsStale
    /\ scan' = TRUE
    /\ UNCHANGED <<phoneVars, post, rows, employeeVars, aged>>

\* The notification and the mark, in one transaction.
ScanAlerts ==
    /\ scan
    /\ scan' = FALSE
    /\ alerted' = TRUE /\ alerts' = alerts + 1
    /\ UNCHANGED <<phoneVars, post, rows, last, active, aged>>

\* The employee is deactivated or restored; time goes by.
SetActive ==
    /\ active' = ~active
    /\ UNCHANGED <<phoneVars, post, rows, last, alerted, alerts, aged, scan>>

Ages ==
    /\ aged < recorded
    /\ aged' = aged + 1
    /\ UNCHANGED <<phoneVars, post, rows, employeeVars, scan>>

Next ==
    \/ Start \/ Stop \/ Stopped \/ \E ok \in BOOLEAN : Started(ok)
    \/ \E r \in Posts :
          \/ Fix(r) \/ Tick(r) \/ FixPosted(r) \/ BatchPosted(r) \/ GivesUp(r)
          \/ Forgotten(r) \/ Reads(r) \/ Stores(r) \/ WritesLast(r)
    \/ ScanReads \/ ScanAlerts \/ SetActive \/ Ages

Spec == Init /\ [][Next]_vars

\* The cron job keeps firing in working hours, and a scan that started goes on.
FairSpec == Spec /\ WF_vars(ScanReads) /\ WF_vars(ScanAlerts)
-----------------------------------------------------------------------------
\* "A one-off notification per stale episode": one at most between two positions,
\* also when a position arrives in the middle of a scan.
OneAlertPerSilence == alerts <= 1

\* Somebody who reported, fell silent and bears no mark of an alert is told of that
\* silence, unless a position arrives or the employee is deactivated first.  It promises
\* nothing for a silence that begins with the mark set: a scan that had selected the
\* employee for an earlier silence may set it after the position that ended that one
\* (AlertIsDue), and then nobody is told of the next.
SilenceIsReported ==
    (active /\ last # 0 /\ last <= aged /\ ~alerted) ~> (alerts > 0 \/ last > aged \/ ~active)
-----------------------------------------------------------------------------
(***************************************************************************)
(* What the repository says and the code does not keep.                    *)
(***************************************************************************)
\* "Reports are kept on the device while there is no connection": what was recorded is
\* stored, on disk, or in a request the phone waits for.
RecordedIsKept ==
    \A n \in 1..recorded :
        n \in rows \cup disk \/ \E r \in Posts : post[r].at # "free" /\ n \in post[r].points

\* The last position does not go back (the comparison in ingest).
LastIsNewest == [][last' # last => last' > last]_vars

\* "If he was not reporting for half an hour": nobody is alerted who has reported since.
AlertIsDue == [][alerts' > alerts => last <= aged]_vars

\* "The first would leak, stop() would close only the last": when tracking is stopped,
\* nothing delivers.
StoppedIsStill == ~running /\ ~stopping => streams = 0
=============================================================================

------------------------------ MODULE Meetings ------------------------------
(***************************************************************************)
(* Group calls: MeetingRoomService (the rooms in memory) and the meeting:* *)
(* handlers of RealtimeGateway with the idle timer, the announcement row   *)
(* in the group chat and the socket.io room that carries the events.       *)
(*                                                                         *)
(* A meeting id is chosen by a client and may be used again, so a room is  *)
(* known by its id and its number under that id.  Only an admin can open a *)
(* room, so the host is always one and needs no variable.                  *)
(***************************************************************************)
EXTENDS MeetingBounds

CONSTANT Handlers       \* requests that may be waiting for a query at one time

People == Admins \cup Employees

VARIABLES
    open,       \* per id: a room is there
    number,     \* per id: rooms opened so far, which numbers the last one
    invited,    \* per id: the employees who may enter
    media,      \* per id and connection: microphone state, "out" if not inside
    chat,       \* per id: the room whose announcement row it will close, or 0
    group,      \* per id: connections in the socket.io room
    row,        \* per id and number: the announcement row
    closing,    \* rows whose closing write is in flight
    timers,     \* armed idle timers
    ringing,    \* per connection: ids it was called to, and not told they ended
    conn,       \* per connection: off, on, or leaving its meetings
    todo,       \* per connection: meetings its disconnect handler has to leave
    job         \* per handler: what it waits for

vars == <<open, number, invited, media, chat, group, row, closing, timers, ringing,
          conn, todo, job>>
-----------------------------------------------------------------------------
Numbers == 1..MaxRooms
Rooms == Meetings \X Numbers
States == {"on", "off"}
Idle == [pc |-> "idle"]
Job == [pc : {"query"}, id : Meetings, number : Numbers, fresh : BOOLEAN, calls : SUBSET Employees]
       \cup [pc : {"post", "kick"}, id : Meetings, number : Numbers]

TypeOK ==
    /\ open \in [Meetings -> BOOLEAN]
    /\ number \in [Meetings -> 0..MaxRooms]
    /\ invited \in [Meetings -> SUBSET Employees]
    /\ media \in [Meetings -> [Sockets -> States \cup {"out"}]]
    /\ chat \in [Meetings -> 0..MaxRooms]
    /\ group \in [Meetings -> SUBSET Sockets]
    /\ row \in [Rooms -> {"none", "live", "ended"}]
    /\ closing \subseteq Rooms /\ timers \subseteq Rooms
    /\ ringing \in [Sockets -> SUBSET Meetings]
    /\ conn \in [Sockets -> {"off", "on", "leaving"}]
    /\ todo \in [Sockets -> SUBSET Meetings]
    /\ job \in [Handlers -> Job \cup {Idle}]
    /\ \A m \in Meetings : /\ open[m] => number[m] > 0
                           /\ ~open[m] => \A s \in Sockets : media[m][s] = "out"

Init ==
    /\ open = [m \in Meetings |-> FALSE]
    /\ number = [m \in Meetings |-> 0]
    /\ invited = [m \in Meetings |-> {}]
    /\ media = [m \in Meetings |-> [s \in Sockets |-> "out"]]
    /\ chat = [m \in Meetings |-> 0]
    /\ group = [m \in Meetings |-> {}]
    /\ row = [r \in Rooms |-> "none"]
    /\ closing = {} /\ timers = {}
    /\ ringing = [s \in Sockets |-> {}]
    /\ conn = [s \in Sockets |-> "off"]
    /\ todo = [s \in Sockets |-> {}]
    /\ job = [h \in Handlers |-> Idle]
-----------------------------------------------------------------------------
(***************************************************************************)
(* A definition whose name ends in Bug is a plausible mistake in one after *)
(* it; PROJECT.json says which property finds it.                          *)
(***************************************************************************)
Inside(m) == {s \in Sockets : media[m][s] # "out"}
Present(m) == {Owner[s] : s \in Inside(m)}
In(s) == {m \in Meetings : s \in Inside(m)}
Admin(s) == conn[s] = "on" /\ Owner[s] \in Admins
Free(h) == job[h].pc = "idle"
Await(h, j) == job' = [job EXCEPT ![h] = j]

\* A room is opened under m for these employees; its bound is MaxRooms.
Opened(m, who) ==
    /\ number[m] < MaxRooms
    /\ open' = [open EXCEPT ![m] = TRUE]
    /\ number' = [number EXCEPT ![m] = @ + 1]
    /\ invited' = [invited EXCEPT ![m] = who]
    /\ chat' = [chat EXCEPT ![m] = 0]

\* meeting:incoming reaches the connections that are there.
Ring(m, who) ==
    ringing' = [s \in Sockets |-> IF conn[s] = "on" /\ Owner[s] \in who
                                  THEN ringing[s] \cup {m} ELSE ringing[s]]

\* meeting:ended goes to the room and to whom it invited, and stops the ringing;
\* the announcement, if the room knows of one, is going to be closed.
Ended(m) ==
    ringing' = [s \in Sockets |-> IF s \in group[m] \/ Owner[s] \in invited[m]
                                  THEN ringing[s] \ {m} ELSE ringing[s]]
Closing(m) == closing \cup ({m} \X ({chat[m]} \ {0}))
-----------------------------------------------------------------------------
\* meeting:invite.  The room is opened or the list extended before any await.
\* An invitation of all then asks who there is; one of some calls them now.
Invite(h, s, m, kind, some, again) ==
    LET fresh == ~open[m]
        who == IF kind = "all" THEN Employees ELSE some
        calls == (who \ Present(m)) \ (IF fresh \/ again THEN {} ELSE invited[m])
    IN
    /\ Free(h) /\ Admin(s) /\ kind \in Kinds
    /\ IF fresh THEN Opened(m, who)
       ELSE /\ invited' = [invited EXCEPT ![m] = @ \cup who]
            /\ UNCHANGED <<open, number, chat>>
    /\ IF kind = "all"
       THEN /\ Await(h, [pc |-> "query", id |-> m, number |-> number'[m],
                         fresh |-> fresh, calls |-> calls])
            /\ UNCHANGED <<ringing, timers>>
       ELSE /\ Ring(m, calls)
            /\ timers' = IF fresh THEN timers \cup {<<m, number'[m]>>} ELSE timers
            /\ UNCHANGED job
    /\ UNCHANGED <<media, group, row, closing, conn, todo>>

QueriedBug(h) ==                          \* arms no timer
    LET j == job[h] IN
    /\ j.pc = "query"
    /\ Ring(j.id, j.calls)
    /\ Await(h, IF j.fresh THEN [pc |-> "post", id |-> j.id, number |-> j.number] ELSE Idle)
    /\ UNCHANGED <<open, number, invited, media, chat, group, row, closing, timers, conn, todo>>

\* The query of an invitation of all returns: they are called, and the first
\* invitation to a room arms its timer and announces it.
Queried(h) ==
    LET j == job[h] IN
    /\ j.pc = "query"
    /\ Ring(j.id, j.calls)
    /\ timers' = IF j.fresh THEN timers \cup {<<j.id, j.number>>} ELSE timers
    /\ Await(h, IF j.fresh THEN [pc |-> "post", id |-> j.id, number |-> j.number] ELSE Idle)
    /\ UNCHANGED <<open, number, invited, media, chat, group, row, closing, conn, todo>>

\* A query that fails throws out of the handler.
QueryFails(h) ==
    /\ Fails
    /\ job[h].pc = "query"
    /\ Await(h, Idle)
    /\ UNCHANGED <<open, number, invited, media, chat, group, row, closing, timers, ringing,
                   conn, todo>>

\* The announcement is there: the room under that id is told, if there is one.
Posted(h) ==
    LET j == job[h] IN
    /\ j.pc = "post"
    /\ row' = [row EXCEPT ![<<j.id, j.number>>] = "live"]
    /\ chat' = IF open[j.id] THEN [chat EXCEPT ![j.id] = j.number] ELSE chat
    /\ Await(h, Idle)
    /\ UNCHANGED <<open, number, invited, media, group, closing, timers, ringing, conn, todo>>

PostFails(h) ==
    /\ Fails
    /\ job[h].pc = "post"
    /\ Await(h, Idle)
    /\ UNCHANGED <<open, number, invited, media, chat, group, row, closing, timers, ringing,
                   conn, todo>>

\* An admin always may enter, an employee only a room that invited them.
CanJoin(s, m) == Owner[s] \in Admins \/ (open[m] /\ Owner[s] \in invited[m])

InheritedBug(s, m, state) == state        \* takes the state of the request

\* The state a person's other connection in the room has already.
Inherited(s, m, state) ==
    LET same == {t \in Inside(m) : Owner[t] = Owner[s]} IN
    IF same = {} THEN state ELSE media[m][CHOOSE t \in same : TRUE]

\* meeting:join; an admin opens a room that is not there.
Join(s, m, state) ==
    /\ conn[s] = "on" /\ CanJoin(s, m)
    /\ IF open[m] THEN UNCHANGED <<open, number, invited, chat>> ELSE Opened(m, {})
    /\ media' = [media EXCEPT ![m][s] = Inherited(s, m, state)]
    /\ group' = [group EXCEPT ![m] = @ \cup {s}]
    /\ ringing' = [ringing EXCEPT ![s] = @ \ {m}]
    /\ UNCHANGED <<row, closing, timers, conn, todo, job>>

\* meeting:media: the state of every connection of the person.
SetMedia(s, m, state) ==
    /\ conn[s] = "on" /\ Owner[s] \in Present(m)
    /\ media' = [media EXCEPT ![m] = [t \in Sockets |->
                    IF t \in Inside(m) /\ Owner[t] = Owner[s] THEN state ELSE @[t]]]
    /\ UNCHANGED <<open, number, invited, chat, group, row, closing, timers, ringing,
                   conn, todo, job>>

DepartsGoneBug(s, m) ==                   \* closes when the person is gone
    /\ media' = [media EXCEPT ![m][s] = "out"]
    /\ IF {t \in Inside(m) : Owner[t] = Owner[s]} = {s}
       THEN open' = [open EXCEPT ![m] = FALSE] /\ Ended(m) /\ closing' = Closing(m)
       ELSE UNCHANGED <<open, closing, ringing>>
    /\ UNCHANGED <<number, invited, chat, row, timers, job>>

DepartsOpenBug(s, m) ==                   \* never closes
    /\ media' = [media EXCEPT ![m][s] = "out"]
    /\ UNCHANGED <<open, number, invited, chat, row, closing, timers, ringing, job>>

\* leaveMeeting: the last one out closes the room.
Departs(s, m) ==
    /\ media' = [media EXCEPT ![m][s] = "out"]
    /\ IF Inside(m) = {s}
       THEN /\ open' = [open EXCEPT ![m] = FALSE]
            /\ Ended(m)
            /\ closing' = Closing(m)
       ELSE UNCHANGED <<open, closing, ringing>>
    /\ UNCHANGED <<number, invited, chat, row, timers, job>>

Stays == UNCHANGED <<open, number, invited, media, chat, row, closing, timers, ringing, job>>

Leave(s, m) ==
    /\ conn[s] = "on" /\ s \in group[m] \cup Inside(m)
    /\ group' = [group EXCEPT ![m] = @ \ {s}]
    /\ IF s \in Inside(m) THEN Departs(s, m) ELSE Stays
    /\ UNCHANGED <<conn, todo>>

\* The disconnect handler leaves the meetings it found, one await after another.
LeaveNext(s, rest) ==
    \/ /\ rest = {}
       /\ conn' = [conn EXCEPT ![s] = "off"]
       /\ todo' = [todo EXCEPT ![s] = {}]
       /\ Stays
    \/ \E m \in rest :
          /\ conn' = [conn EXCEPT ![s] = "leaving"]
          /\ todo' = [todo EXCEPT ![s] = rest \ {m}]
          /\ IF s \in Inside(m) THEN Departs(s, m) ELSE Stays

Connect(s) ==
    /\ conn[s] = "off"
    /\ conn' = [conn EXCEPT ![s] = "on"]
    /\ ringing' = [ringing EXCEPT ![s] = {}]
    /\ UNCHANGED <<open, number, invited, media, chat, group, row, closing, timers, todo, job>>

DisconnectBug(s) ==                       \* cleans up after the last connection only
    /\ conn[s] = "on"
    /\ group' = [m \in Meetings |-> group[m] \ {s}]
    /\ LeaveNext(s, IF \E t \in Sockets \ {s} : conn[t] = "on" /\ Owner[t] = Owner[s]
                    THEN {} ELSE In(s))

Disconnect(s) ==
    /\ conn[s] = "on"
    /\ group' = [m \in Meetings |-> group[m] \ {s}]
    /\ LeaveNext(s, In(s))

LeavesNext(s) == conn[s] = "leaving" /\ LeaveNext(s, todo[s]) /\ UNCHANGED group

\* meeting:end.  The socket.io room is emptied when the announcement is closed.
End(h, s, m) ==
    /\ Free(h) /\ Admin(s) /\ open[m]
    /\ open' = [open EXCEPT ![m] = FALSE]
    /\ media' = [media EXCEPT ![m] = [t \in Sockets |-> "out"]]
    /\ Ended(m)
    /\ IF chat[m] = 0
       THEN group' = [group EXCEPT ![m] = {}] /\ UNCHANGED job
       ELSE Await(h, [pc |-> "kick", id |-> m, number |-> chat[m]]) /\ UNCHANGED group
    /\ UNCHANGED <<number, invited, chat, row, closing, timers, conn, todo>>

Close(m, n) ==
    \/ row' = [row EXCEPT ![<<m, n>>] = "ended"]
    \/ Fails /\ UNCHANGED row

Kick(h) ==
    LET j == job[h] IN
    /\ j.pc = "kick"
    /\ Close(j.id, j.number)
    /\ group' = [group EXCEPT ![j.id] = {}]
    /\ Await(h, Idle)
    /\ UNCHANGED <<open, number, invited, media, chat, closing, timers, ringing, conn, todo>>

Closed(m, n) ==
    /\ <<m, n>> \in closing
    /\ Close(m, n)
    /\ closing' = closing \ {<<m, n>>}
    /\ UNCHANGED <<open, number, invited, media, chat, group, timers, ringing, conn, todo, job>>

\* MEETING_IDLE_MS after the first invitation: whatever room is there by now is
\* closed if nobody is in it.
IdleFires(m, n) ==
    /\ <<m, n>> \in timers
    /\ timers' = timers \ {<<m, n>>}
    /\ IF open[m] /\ Inside(m) = {}
       THEN /\ open' = [open EXCEPT ![m] = FALSE]
            /\ Ended(m)
            /\ closing' = Closing(m)
       ELSE UNCHANGED <<open, closing, ringing>>
    /\ UNCHANGED <<number, invited, media, chat, group, row, conn, todo, job>>
-----------------------------------------------------------------------------
Resume(h) == Queried(h) \/ QueryFails(h) \/ Posted(h) \/ PostFails(h) \/ Kick(h)

Next ==
    \/ \E h \in Handlers, s \in Sockets, m \in Meetings :
          \/ \E kind \in Kinds, some \in SUBSET Employees, again \in BOOLEAN :
                Invite(h, s, m, kind, some, again)
          \/ End(h, s, m)
    \/ \E s \in Sockets, m \in Meetings :
          Leave(s, m) \/ \E state \in States : Join(s, m, state) \/ SetMedia(s, m, state)
    \/ \E h \in Handlers : Resume(h)
    \/ \E r \in Rooms : Closed(r[1], r[2]) \/ IdleFires(r[1], r[2])
    \/ \E s \in Sockets : Connect(s) \/ Disconnect(s) \/ LeavesNext(s)

Spec == Init /\ [][Next]_vars

\* Queries return and timers fire; nobody has to join, to leave or to end.
FairSpec ==
    /\ Spec
    /\ \A h \in Handlers : WF_vars(Resume(h))
    /\ \A r \in Rooms : WF_vars(IdleFires(r[1], r[2]))
    /\ \A s \in Sockets : WF_vars(LeavesNext(s))
-----------------------------------------------------------------------------
\* "A room exists while it has participants or a pending invite": a room with
\* nobody in it is watched by its own idle timer, or will be when its query
\* returns.  (Not if that query may fail.)
EmptyIsWatched ==
    \A m \in Meetings : open[m] /\ Inside(m) = {} =>
        \/ <<m, number[m]>> \in timers
        \/ \E h \in Handlers : /\ job[h].pc = "query" /\ job[h].fresh
                               /\ job[h].id = m /\ job[h].number = number[m]

\* ... so that it is entered or closed.
EmptyEnds == \A m \in Meetings : (open[m] /\ Inside(m) = {}) ~> (~open[m] \/ Inside(m) # {})

\* Whoever is shown in a room has a connection, or is being taken out of it: no
\* room is kept alive by somebody who is gone.
NoGhosts ==
    \A m \in Meetings : \A s \in Inside(m) :
        conn[s] = "on" \/ (conn[s] = "leaving" /\ m \in todo[s])

\* All connections of a person in a room show the same microphone and camera.
DevicesAgree ==
    \A m \in Meetings : \A s, t \in Inside(m) : Owner[s] = Owner[t] => media[m][s] = media[m][t]
-----------------------------------------------------------------------------
(***************************************************************************)
(* What the repository says and the code does not keep.                    *)
(***************************************************************************)

\* The end of a meeting "clears pending join banners / ringing": nobody is rung
\* for a meeting that is over.  (Not for an invitation of all.)
RingingIsLive == \A s \in Sockets : \A m \in ringing[s] : conn[s] = "on" => open[m]

\* "... and close the group-chat announcement": when no write about it is in
\* flight, a row that says "live" is the one its room will close.
LiveRowHasRoom ==
    \A r \in Rooms : row[r] = "live" =>
        \/ open[r[1]] /\ chat[r[1]] = r[2]
        \/ r \in closing
        \/ \E h \in Handlers : job[h].pc = "kick" /\ <<job[h].id, job[h].number>> = r

\* "Tell those already in the room": who is in a room gets its events.
InsideIsTold == \A m \in Meetings : Inside(m) \subseteq group[m]

\* "A meeting nobody joined within this long after the invite is closed": an idle
\* timer closes the room it was armed for.
OwnIdleTimer ==
    [][\A r \in Rooms :
          r \in timers /\ r \notin timers' /\ open[r[1]] /\ ~open'[r[1]]
          => r[2] = number[r[1]]]_vars
=============================================================================

--------------------------- MODULE MeetingsProofs ---------------------------
(***************************************************************************)
(* Proofs about Meetings, for any number of people, connections, rooms and *)
(* requests: who is in a room is there or being taken out, the devices of  *)
(* a person agree, and a room nobody is in is watched by its own timer.    *)
(***************************************************************************)
EXTENDS Meetings, TLAPS

\* The opening of a room keeps its record well formed, and numbers it.
LEMMA OpenedType ==
    ASSUME TypeOK, NEW m \in Meetings, NEW who \in SUBSET Employees, Opened(m, who)
    PROVE  /\ open' \in [Meetings -> BOOLEAN]
           /\ number' \in [Meetings -> 0..MaxRooms]
           /\ invited' \in [Meetings -> SUBSET Employees]
           /\ chat' \in [Meetings -> 0..MaxRooms]
           /\ number'[m] \in Numbers
           /\ number'[m] > 0
           /\ open'[m]
           /\ \A k \in Meetings \ {m} : open'[k] = open[k] /\ number'[k] = number[k]
  <1>1. MaxRooms \in Nat /\ number[m] \in 0..MaxRooms /\ number[m] < MaxRooms
    BY MeetingsAssumption DEF TypeOK, Opened
  <1>2. number[m] + 1 \in 0..MaxRooms /\ number[m] + 1 \in Numbers /\ number[m] + 1 > 0 /\ 0 \in 0..MaxRooms
    BY <1>1 DEF Numbers
  <1>3. QED
    BY <1>2 DEF TypeOK, Opened

\* The state with which a connection enters is a state, not "out".
LEMMA InheritedState ==
    ASSUME TypeOK, NEW s \in Sockets, NEW m \in Meetings, NEW state \in States
    PROVE  /\ Inherited(s, m, state) \in States
           /\ \A t \in Inside(m) : Owner[t] = Owner[s] => Inherited(s, m, state)
                  \in {media[m][x] : x \in {y \in Inside(m) : Owner[y] = Owner[s]}}
  <1> DEFINE same == {t \in Inside(m) : Owner[t] = Owner[s]}
  <1>1. CASE same = {}
    BY <1>1 DEF Inherited
  <1>2. CASE same # {}
    <2>1. PICK t \in same : Inherited(s, m, state) = media[m][t]
      BY <1>2 DEF Inherited
    <2>2. media[m][t] \in States
      BY <2>1 DEF TypeOK, Inside
    <2>3. QED
      BY <2>1, <2>2
  <1>3. QED
    BY <1>1, <1>2

\* Types of the small sets.
LEMMA RoomsAndRings ==
    ASSUME TypeOK
    PROVE  /\ \A m \in Meetings : \A who :
                  Ring(m, who) \/ Ended(m) => ringing' \in [Sockets -> SUBSET Meetings]
           /\ \A m \in Meetings : Closing(m) \subseteq Rooms
  <1>1. ASSUME NEW m \in Meetings, NEW who, Ring(m, who) \/ Ended(m)
        PROVE  ringing' \in [Sockets -> SUBSET Meetings]
    <2>1. \A s \in Sockets : /\ ringing[s] \in SUBSET Meetings
                              /\ ringing[s] \cup {m} \in SUBSET Meetings
                              /\ ringing[s] \ {m} \in SUBSET Meetings
      BY DEF TypeOK
    <2>2. CASE Ring(m, who)
      BY <2>1, <2>2 DEF Ring
    <2>3. CASE Ended(m)
      BY <2>1, <2>3 DEF Ended
    <2>4. QED
      BY <1>1, <2>2, <2>3
  <1>2. ASSUME NEW m \in Meetings PROVE Closing(m) \subseteq Rooms
    <2>1. chat[m] \in 0..MaxRooms /\ MaxRooms \in Nat
      BY MeetingsAssumption DEF TypeOK
    <2>2. {chat[m]} \ {0} \subseteq Numbers
      BY <2>1 DEF Numbers
    <2>3. {m} \X ({chat[m]} \ {0}) \subseteq Meetings \X Numbers
      BY <2>2
    <2>4. closing \subseteq Meetings \X Numbers
      BY DEF TypeOK, Rooms
    <2>5. QED
      BY <2>3, <2>4 DEF Closing, Rooms
  <1>3. QED
    BY <1>1, <1>2
-----------------------------------------------------------------------------
(***************************************************************************)
(* Type correctness.                                                       *)
(***************************************************************************)
LEMMA Departing ==
    ASSUME TypeOK, NEW s \in Sockets, NEW m \in Meetings, Departs(s, m)
    PROVE  /\ media' \in [Meetings -> [Sockets -> States \cup {"out"}]]
           /\ open' \in [Meetings -> BOOLEAN]
           /\ ringing' \in [Sockets -> SUBSET Meetings]
           /\ closing' \subseteq Rooms
           /\ \A k \in Meetings : /\ open'[k] => open[k]
                                  /\ ~open'[k] => \A t \in Sockets : media'[k][t] = "out"
  <1>1. /\ media' \in [Meetings -> [Sockets -> States \cup {"out"}]]
        /\ \A k \in Meetings, t \in Sockets :
              media'[k][t] = IF k = m /\ t = s THEN "out" ELSE media[k][t]
    BY DEF TypeOK, Departs
  <1>2. /\ open' \in [Meetings -> BOOLEAN]
        /\ \A k \in Meetings : open'[k] => open[k]
    BY DEF TypeOK, Departs
  <1>3. /\ ringing' \in [Sockets -> SUBSET Meetings]
        /\ closing' \subseteq Rooms
    BY RoomsAndRings DEF TypeOK, Departs
  <1>4. ASSUME NEW k \in Meetings, ~open'[k], NEW t \in Sockets PROVE media'[k][t] = "out"
    <2>1. CASE ~open[k]
      BY <1>1, <2>1 DEF TypeOK
    <2>2. CASE open[k]
      <3>1. k = m /\ Inside(m) = {s}
        BY <1>4, <2>2 DEF TypeOK, Departs
      <3>2. QED
        BY <1>1, <3>1 DEF Inside
    <2>3. QED
      BY <2>1, <2>2
  <1>5. QED
    BY <1>1, <1>2, <1>3, <1>4

LEMMA LeavingType ==
    ASSUME TypeOK, NEW s \in Sockets, NEW rest \in SUBSET Meetings, LeaveNext(s, rest),
           group' \in [Meetings -> SUBSET Sockets]
    PROVE  TypeOK'
  <1>1. CASE rest = {} /\ conn' = [conn EXCEPT ![s] = "off"] /\ todo' = [todo EXCEPT ![s] = {}] /\ Stays
    BY <1>1 DEF TypeOK, Stays, Job, Idle
  <1>2. ASSUME NEW m \in rest, conn' = [conn EXCEPT ![s] = "leaving"],
               todo' = [todo EXCEPT ![s] = rest \ {m}], Stays
        PROVE  TypeOK'
    BY <1>2 DEF TypeOK, Stays
  <1>3. ASSUME NEW m \in rest, conn' = [conn EXCEPT ![s] = "leaving"],
               todo' = [todo EXCEPT ![s] = rest \ {m}], Departs(s, m)
        PROVE  TypeOK'
    <2>1. conn' \in [Sockets -> {"off", "on", "leaving"}] /\ todo' \in [Sockets -> SUBSET Meetings]
      BY <1>3 DEF TypeOK
    <2>2. QED
      BY <1>3, <2>1, Departing DEF TypeOK, Departs
  <1>4. QED
    BY <1>1, <1>2, <1>3 DEF LeaveNext

LEMMA TypeStep == TypeOK /\ [Next]_vars => TypeOK'
  <1> SUFFICES ASSUME TypeOK, [Next]_vars PROVE TypeOK'
    OBVIOUS
  <1>1. ASSUME NEW h \in Handlers, NEW s \in Sockets, NEW m \in Meetings, NEW kind \in Kinds,
               NEW some \in SUBSET Employees, NEW again \in BOOLEAN,
               Invite(h, s, m, kind, some, again)
        PROVE  TypeOK'
    <2> DEFINE who == IF kind = "all" THEN Employees ELSE some
               fresh == ~open[m]
               calls == (who \ Present(m)) \ (IF fresh \/ again THEN {} ELSE invited[m])
    <2>1. who \in SUBSET Employees /\ calls \in SUBSET Employees /\ fresh \in BOOLEAN
      BY DEF TypeOK
    <2>2. /\ open' \in [Meetings -> BOOLEAN]
          /\ number' \in [Meetings -> 0..MaxRooms]
          /\ invited' \in [Meetings -> SUBSET Employees]
          /\ chat' \in [Meetings -> 0..MaxRooms]
          /\ number'[m] \in Numbers
          /\ \A k \in Meetings : open[k] => open'[k]
          /\ \A k \in Meetings : open'[k] => number'[k] > 0
      <3>1. CASE fresh
        <4>1. Opened(m, who)
          BY <1>1, <3>1 DEF Invite
        <4>2. \A k \in Meetings : open'[k] => number'[k] > 0
          BY <2>1, <4>1, OpenedType DEF TypeOK
        <4>3. QED
          BY <2>1, <4>1, <4>2, OpenedType DEF TypeOK
      <3>2. CASE ~fresh
        <4>1. /\ invited' = [invited EXCEPT ![m] = @ \cup who]
              /\ UNCHANGED <<open, number, chat>>
          BY <1>1, <3>2 DEF Invite
        <4>2. number[m] \in Numbers
          BY <3>2, MeetingsAssumption DEF TypeOK, Numbers
        <4>3. QED
          BY <2>1, <4>1, <4>2 DEF TypeOK
      <3>3. QED
        BY <3>1, <3>2
    <2>3. job' \in [Handlers -> Job \cup {Idle}]
      <3>1. CASE kind = "all"
        <4>1. [pc |-> "query", id |-> m, number |-> number'[m], fresh |-> fresh, calls |-> calls] \in Job
          BY <2>1, <2>2 DEF Job
        <4>2. Await(h, [pc |-> "query", id |-> m, number |-> number'[m], fresh |-> fresh,
                        calls |-> calls])
          BY <1>1, <3>1 DEF Invite
        <4>3. QED
          BY <4>1, <4>2 DEF Await, TypeOK
      <3>2. CASE kind # "all"
        BY <1>1, <3>2 DEF Invite, TypeOK
      <3>3. QED
        BY <3>1, <3>2
    <2>4. ringing' \in [Sockets -> SUBSET Meetings] /\ timers' \subseteq Rooms
      <3>1. CASE kind = "all"
        BY <1>1, <3>1 DEF Invite, TypeOK
      <3>2. CASE kind # "all"
        <4>1. Ring(m, calls) /\ timers' = IF fresh THEN timers \cup {<<m, number'[m]>>} ELSE timers
          BY <1>1, <3>2 DEF Invite
        <4>2. <<m, number'[m]>> \in Rooms
          BY <2>2 DEF Rooms
        <4>3. ringing' \in [Sockets -> SUBSET Meetings]
          BY <4>1, RoomsAndRings
        <4>4. timers' \subseteq Rooms
          BY <4>1, <4>2 DEF TypeOK
        <4>5. QED
          BY <4>3, <4>4
      <3>3. QED
        BY <3>1, <3>2
    <2>5. UNCHANGED <<media, group, row, closing, conn, todo>>
      BY <1>1 DEF Invite
    <2>6. QED
      BY <2>2, <2>3, <2>4, <2>5 DEF TypeOK
  <1>2. ASSUME NEW h \in Handlers, NEW s \in Sockets, NEW m \in Meetings, End(h, s, m)
        PROVE  TypeOK'
    <2>1. job' \in [Handlers -> Job \cup {Idle}]
      <3>1. CASE chat[m] = 0
        BY <1>2, <3>1 DEF End, TypeOK
      <3>2. CASE chat[m] # 0
        <4>1. chat[m] \in Numbers
          BY <3>2, MeetingsAssumption DEF TypeOK, Numbers
        <4>2. [pc |-> "kick", id |-> m, number |-> chat[m]] \in Job
          BY <4>1 DEF Job
        <4>3. Await(h, [pc |-> "kick", id |-> m, number |-> chat[m]])
          BY <1>2, <3>2 DEF End
        <4>4. QED
          BY <4>2, <4>3 DEF Await, TypeOK
      <3>3. QED
        BY <3>1, <3>2
    <2>2. group' \in [Meetings -> SUBSET Sockets]
      BY <1>2 DEF End, TypeOK
    <2>3. ringing' \in [Sockets -> SUBSET Meetings]
      BY <1>2, RoomsAndRings DEF End
    <2>4. /\ open' \in [Meetings -> BOOLEAN]
          /\ media' \in [Meetings -> [Sockets -> States \cup {"out"}]]
          /\ \A k \in Meetings : open'[k] => open[k]
          /\ \A k \in Meetings : ~open'[k] => \A t \in Sockets : media'[k][t] = "out"
      BY <1>2 DEF End, TypeOK
    <2>5. UNCHANGED <<number, invited, chat, row, closing, timers, conn, todo>>
      BY <1>2 DEF End
    <2>6. QED
      BY <2>1, <2>2, <2>3, <2>4, <2>5 DEF TypeOK
  <1>3. ASSUME NEW s \in Sockets, NEW m \in Meetings, Leave(s, m) PROVE TypeOK'
    <2>1. group' \in [Meetings -> SUBSET Sockets] /\ UNCHANGED <<conn, todo>>
      BY <1>3 DEF Leave, TypeOK
    <2>2. CASE Departs(s, m)
      BY <2>1, <2>2, Departing DEF Departs, TypeOK
    <2>3. CASE Stays
      BY <2>1, <2>3 DEF Stays, TypeOK
    <2>4. QED
      BY <1>3, <2>2, <2>3 DEF Leave
  <1>4. ASSUME NEW s \in Sockets, NEW m \in Meetings, NEW state \in States, Join(s, m, state)
        PROVE  TypeOK'
    <2>1. /\ open' \in [Meetings -> BOOLEAN]
          /\ number' \in [Meetings -> 0..MaxRooms]
          /\ invited' \in [Meetings -> SUBSET Employees]
          /\ chat' \in [Meetings -> 0..MaxRooms]
          /\ open'[m]
          /\ \A k \in Meetings : open[k] => open'[k]
          /\ \A k \in Meetings : open'[k] => number'[k] > 0
          /\ \A k \in Meetings \ {m} : open'[k] = open[k]
      <3>1. CASE open[m]
        BY <1>4, <3>1 DEF Join, TypeOK
      <3>2. CASE ~open[m]
        <4>1. Opened(m, {}) /\ {} \in SUBSET Employees
          BY <1>4, <3>2 DEF Join
        <4>2. \A k \in Meetings : open'[k] => number'[k] > 0
          BY <4>1, OpenedType DEF TypeOK
        <4>3. QED
          BY <4>1, <4>2, OpenedType DEF TypeOK
      <3>3. QED
        BY <3>1, <3>2
    <2>2. /\ media' \in [Meetings -> [Sockets -> States \cup {"out"}]]
          /\ \A k \in Meetings \ {m} : media'[k] = media[k]
      BY <1>4, InheritedState DEF Join, TypeOK
    <2>3. group' \in [Meetings -> SUBSET Sockets] /\ ringing' \in [Sockets -> SUBSET Meetings]
      BY <1>4 DEF Join, TypeOK
    <2>4. UNCHANGED <<row, closing, timers, conn, todo, job>>
      BY <1>4 DEF Join
    <2>5. ASSUME NEW k \in Meetings, ~open'[k] PROVE \A t \in Sockets : media'[k][t] = "out"
      <3>1. k # m /\ ~open[k]
        BY <2>1, <2>5
      <3>2. QED
        BY <2>2, <3>1 DEF TypeOK
    <2>6. QED
      BY <2>1, <2>2, <2>3, <2>4, <2>5 DEF TypeOK
  <1>5. ASSUME NEW s \in Sockets, NEW m \in Meetings, NEW state \in States, SetMedia(s, m, state)
        PROVE  TypeOK'
    <2>1. /\ media' \in [Meetings -> [Sockets -> States \cup {"out"}]]
          /\ \A k \in Meetings, t \in Sockets : media[k][t] = "out" => media'[k][t] = "out"
      BY <1>5 DEF SetMedia, TypeOK, Inside
    <2>2. QED
      BY <1>5, <2>1 DEF SetMedia, TypeOK
  <1>6. ASSUME NEW h \in Handlers, Resume(h) PROVE TypeOK'
    <2> DEFINE j == job[h]
    <2>1. j \in Job \cup {Idle}
      BY DEF TypeOK
    <2>2. CASE Queried(h)
      <3>1. /\ j.id \in Meetings /\ j.number \in Numbers
            /\ [pc |-> "post", id |-> j.id, number |-> j.number] \in Job
        BY <2>1, <2>2 DEF Queried, Job, Idle
      <3>2. job' \in [Handlers -> Job \cup {Idle}]
        BY <2>2, <3>1 DEF Queried, Await, TypeOK
      <3>3. timers' \subseteq Rooms
        BY <2>2, <3>1 DEF Queried, Rooms, TypeOK
      <3>4. ringing' \in [Sockets -> SUBSET Meetings]
        BY <2>2, <3>1, RoomsAndRings DEF Queried
      <3>5. QED
        BY <2>2, <3>2, <3>3, <3>4 DEF Queried, TypeOK
    <2>3. CASE QueryFails(h) \/ PostFails(h)
      <3>1. job' \in [Handlers -> Job \cup {Idle}]
        BY <2>3 DEF QueryFails, PostFails, Await, TypeOK
      <3>2. QED
        BY <2>3, <3>1 DEF QueryFails, PostFails, TypeOK
    <2>4. CASE Posted(h)
      <3>1. j.id \in Meetings /\ j.number \in Numbers
        BY <2>1, <2>4 DEF Posted, Job, Idle
      <3>2. job' \in [Handlers -> Job \cup {Idle}]
        BY <2>4 DEF Posted, Await, TypeOK
      <3>3. row' \in [Rooms -> {"none", "live", "ended"}]
        BY <2>4 DEF Posted, TypeOK
      <3>4. chat' \in [Meetings -> 0..MaxRooms]
        <4>1. j.number \in 0..MaxRooms
          BY <3>1, MeetingsAssumption DEF Numbers
        <4>2. QED
          BY <2>4, <4>1 DEF Posted, TypeOK
      <3>5. QED
        BY <2>4, <3>2, <3>3, <3>4 DEF Posted, TypeOK
    <2>5. CASE Kick(h)
      <3>1. job' \in [Handlers -> Job \cup {Idle}]
        BY <2>5 DEF Kick, Await, TypeOK
      <3>2. row' \in [Rooms -> {"none", "live", "ended"}]
        BY <2>5 DEF Kick, Close, TypeOK
      <3>3. group' \in [Meetings -> SUBSET Sockets]
        BY <2>5 DEF Kick, TypeOK
      <3>4. QED
        BY <2>5, <3>1, <3>2, <3>3 DEF Kick, TypeOK
    <2>6. QED
      BY <1>6, <2>2, <2>3, <2>4, <2>5 DEF Resume
  <1>7. ASSUME NEW m \in Meetings, NEW n \in Numbers, Closed(m, n) PROVE TypeOK'
    <2>1. row' \in [Rooms -> {"none", "live", "ended"}] /\ closing' \subseteq Rooms
      BY <1>7 DEF Closed, Close, TypeOK
    <2>2. QED
      BY <1>7, <2>1 DEF Closed, TypeOK
  <1>8. ASSUME NEW m \in Meetings, NEW n \in Numbers, IdleFires(m, n) PROVE TypeOK'
    <2>1. timers' \subseteq Rooms
      BY <1>8 DEF IdleFires, TypeOK
    <2>2. /\ ringing' \in [Sockets -> SUBSET Meetings]
          /\ closing' \subseteq Rooms
      <3>1. CASE Ended(m) /\ closing' = Closing(m)
        BY <3>1, RoomsAndRings
      <3>2. CASE UNCHANGED <<closing, ringing>>
        BY <3>2 DEF TypeOK
      <3>3. QED
        BY <1>8, <3>1, <3>2 DEF IdleFires
    <2>3. /\ open' \in [Meetings -> BOOLEAN]
          /\ \A k \in Meetings : open'[k] => open[k]
          /\ \A k \in Meetings : ~open'[k] => \A t \in Sockets : media[k][t] = "out"
      BY <1>8 DEF IdleFires, TypeOK, Inside
    <2>4. QED
      BY <1>8, <2>1, <2>2, <2>3 DEF IdleFires, TypeOK
  <1>9. ASSUME NEW s \in Sockets, Connect(s) PROVE TypeOK'
    <2>1. conn' \in [Sockets -> {"off", "on", "leaving"}] /\ ringing' \in [Sockets -> SUBSET Meetings]
      BY <1>9 DEF Connect, TypeOK
    <2>2. QED
      BY <1>9, <2>1 DEF Connect, TypeOK
  <1>10. ASSUME NEW s \in Sockets, Disconnect(s) PROVE TypeOK'
    <2>1. In(s) \in SUBSET Meetings /\ group' \in [Meetings -> SUBSET Sockets]
      BY <1>10 DEF Disconnect, In, TypeOK
    <2>2. QED
      BY <1>10, <2>1, LeavingType DEF Disconnect
  <1>11. ASSUME NEW s \in Sockets, LeavesNext(s) PROVE TypeOK'
    <2>1. todo[s] \in SUBSET Meetings /\ group' \in [Meetings -> SUBSET Sockets]
      BY <1>11 DEF LeavesNext, TypeOK
    <2>2. QED
      BY <1>11, <2>1, LeavingType DEF LeavesNext
  <1>12. CASE UNCHANGED vars
    BY <1>12 DEF vars, TypeOK
  <1>13. ASSUME NEW r \in Rooms, Closed(r[1], r[2]) \/ IdleFires(r[1], r[2]) PROVE TypeOK'
    BY <1>7, <1>8, <1>13 DEF Rooms
  <1>14. QED
    BY <1>1, <1>2, <1>3, <1>4, <1>5, <1>6, <1>9, <1>10, <1>11, <1>12, <1>13 DEF Next
-----------------------------------------------------------------------------
(***************************************************************************)
(* Who is inside.                                                          *)
(***************************************************************************)

\* All that touches who is in a room, and how they are shown.
Touches ==
    \E s \in Sockets :
        \/ Connect(s) \/ Disconnect(s) \/ LeavesNext(s)
        \/ \E m \in Meetings :
              \/ \E h \in Handlers : End(h, s, m)
              \/ Leave(s, m)
              \/ \E state \in States : Join(s, m, state) \/ SetMedia(s, m, state)

LEMMA Untouched == [Next]_vars => Touches \/ UNCHANGED <<media, conn, todo>>
  <1> SUFFICES ASSUME [Next]_vars, ~Touches PROVE UNCHANGED <<media, conn, todo>>
    OBVIOUS
  <1>1. CASE UNCHANGED vars
    BY <1>1 DEF vars
  <1>2. ASSUME NEW h \in Handlers, NEW s \in Sockets, NEW m \in Meetings,
               \/ \E kind \in Kinds, some \in SUBSET Employees, again \in BOOLEAN :
                     Invite(h, s, m, kind, some, again)
               \/ End(h, s, m)
        PROVE  UNCHANGED <<media, conn, todo>>
    BY <1>2 DEF Touches, Invite
  <1>3. ASSUME NEW s \in Sockets, NEW m \in Meetings,
               Leave(s, m) \/ \E state \in States : Join(s, m, state) \/ SetMedia(s, m, state)
        PROVE  UNCHANGED <<media, conn, todo>>
    BY <1>3 DEF Touches
  <1>4. ASSUME NEW h \in Handlers, Resume(h) PROVE UNCHANGED <<media, conn, todo>>
    BY <1>4 DEF Resume, Queried, QueryFails, Posted, PostFails, Kick
  <1>5. ASSUME NEW r \in Rooms, Closed(r[1], r[2]) \/ IdleFires(r[1], r[2])
        PROVE  UNCHANGED <<media, conn, todo>>
    BY <1>5 DEF Closed, IdleFires
  <1>6. ASSUME NEW s \in Sockets, Connect(s) \/ Disconnect(s) \/ LeavesNext(s)
        PROVE  UNCHANGED <<media, conn, todo>>
    BY <1>6 DEF Touches
  <1>7. QED
    BY <1>1, <1>2, <1>3, <1>4, <1>5, <1>6 DEF Next

LEMMA Entering ==
    ASSUME TypeOK, NEW s \in Sockets, NEW m \in Meetings, NEW state \in States, Join(s, m, state)
    PROVE  /\ \A k \in Meetings, t \in Sockets : media'[k][t] =
                  IF k = m /\ t = s THEN Inherited(s, m, state) ELSE media[k][t]
           /\ Inherited(s, m, state) \in States
           /\ conn[s] = "on"
           /\ UNCHANGED <<conn, todo>>
  BY InheritedState DEF Join, TypeOK

LEMMA Changing ==
    ASSUME TypeOK, NEW s \in Sockets, NEW m \in Meetings, NEW state \in States,
           SetMedia(s, m, state)
    PROVE  /\ \A k \in Meetings, t \in Sockets : media'[k][t] =
                  IF k = m /\ t \in Inside(m) /\ Owner[t] = Owner[s] THEN state ELSE media[k][t]
           /\ UNCHANGED <<conn, todo>>
  BY DEF SetMedia, TypeOK

LEMMA Emptying ==
    ASSUME TypeOK, NEW h \in Handlers, NEW s \in Sockets, NEW m \in Meetings, End(h, s, m)
    PROVE  /\ \A k \in Meetings, t \in Sockets :
                  media'[k][t] = IF k = m THEN "out" ELSE media[k][t]
           /\ UNCHANGED <<conn, todo>>
  BY DEF End, TypeOK

LEMMA TakenOut ==
    ASSUME TypeOK, NEW s \in Sockets, NEW m \in Meetings,
           IF s \in Inside(m) THEN Departs(s, m) ELSE Stays
    PROVE  \A k \in Meetings, t \in Sockets :
              media'[k][t] = IF k = m /\ t = s THEN "out" ELSE media[k][t]
  <1>1. CASE s \in Inside(m)
    BY <1>1 DEF Departs, TypeOK
  <1>2. CASE s \notin Inside(m)
    BY <1>2 DEF Stays, TypeOK, Inside
  <1>3. QED
    BY <1>1, <1>2

\* A disconnect handler that goes through all the rooms its connection is in
\* leaves it in none when it is done.
LEMMA GoingAway ==
    ASSUME TypeOK, NoGhosts, NEW s \in Sockets, NEW rest \in SUBSET Meetings,
           LeaveNext(s, rest), In(s) \subseteq rest
    PROVE  NoGhosts'
  <1> SUFFICES ASSUME NEW k \in Meetings, NEW t \in Sockets, media'[k][t] # "out"
               PROVE  conn'[t] = "on" \/ (conn'[t] = "leaving" /\ k \in todo'[t])
    BY DEF NoGhosts, Inside
  <1>1. CASE rest = {} /\ conn' = [conn EXCEPT ![s] = "off"] /\ todo' = [todo EXCEPT ![s] = {}] /\ Stays
    <2>1. media[k][t] # "out" /\ t # s
      BY <1>1 DEF Stays, In, Inside
    <2>2. QED
      BY <1>1, <2>1 DEF NoGhosts, Inside, TypeOK
  <1>2. ASSUME NEW m \in rest, conn' = [conn EXCEPT ![s] = "leaving"],
               todo' = [todo EXCEPT ![s] = rest \ {m}],
               IF s \in Inside(m) THEN Departs(s, m) ELSE Stays
        PROVE  conn'[t] = "on" \/ (conn'[t] = "leaving" /\ k \in todo'[t])
    <2>1. media[k][t] # "out" /\ ~(k = m /\ t = s)
      BY <1>2, TakenOut
    <2>2. CASE t = s
      <3>1. k \in rest \ {m}
        BY <2>1, <2>2 DEF In, Inside
      <3>2. QED
        BY <1>2, <2>2, <3>1 DEF TypeOK
    <2>3. CASE t # s
      BY <1>2, <2>1, <2>3 DEF NoGhosts, Inside, TypeOK
    <2>4. QED
      BY <2>2, <2>3
  <1>3. QED
    BY <1>1, <1>2 DEF LeaveNext

LEMMA NoGhostsStep == TypeOK /\ NoGhosts /\ [Next]_vars => NoGhosts'
  <1> SUFFICES ASSUME TypeOK, NoGhosts, [Next]_vars PROVE NoGhosts'
    OBVIOUS
  <1>1. CASE UNCHANGED <<media, conn, todo>>
    BY <1>1 DEF NoGhosts, Inside
  <1>2. ASSUME NEW s \in Sockets, NEW m \in Meetings, NEW h \in Handlers, End(h, s, m)
        PROVE  NoGhosts'
    BY <1>2, Emptying DEF NoGhosts, Inside
  <1>3. ASSUME NEW s \in Sockets, NEW m \in Meetings, Leave(s, m) PROVE NoGhosts'
    BY <1>3, TakenOut DEF Leave, NoGhosts, Inside
  <1>4. ASSUME NEW s \in Sockets, NEW m \in Meetings, NEW state \in States, Join(s, m, state)
        PROVE  NoGhosts'
    BY <1>4, Entering DEF NoGhosts, Inside
  <1>5. ASSUME NEW s \in Sockets, NEW m \in Meetings, NEW state \in States, SetMedia(s, m, state)
        PROVE  NoGhosts'
    BY <1>5, Changing DEF NoGhosts, Inside
  <1>6. ASSUME NEW s \in Sockets, Connect(s) PROVE NoGhosts'
    BY <1>6 DEF Connect, NoGhosts, Inside, TypeOK
  <1>7. ASSUME NEW s \in Sockets, Disconnect(s) PROVE NoGhosts'
    <2>1. In(s) \in SUBSET Meetings
      BY DEF In
    <2>2. QED
      BY <1>7, <2>1, GoingAway DEF Disconnect
  <1>8. ASSUME NEW s \in Sockets, LeavesNext(s) PROVE NoGhosts'
    <2>1. In(s) \subseteq todo[s] /\ todo[s] \in SUBSET Meetings
      BY <1>8 DEF LeavesNext, NoGhosts, In, TypeOK
    <2>2. QED
      BY <1>8, <2>1, GoingAway DEF LeavesNext
  <1>9. QED
    BY Untouched, <1>1, <1>2, <1>3, <1>4, <1>5, <1>6, <1>7, <1>8 DEF Touches

LEMMA DevicesStep == TypeOK /\ DevicesAgree /\ [Next]_vars => DevicesAgree'
  <1> SUFFICES ASSUME TypeOK, DevicesAgree, [Next]_vars PROVE DevicesAgree'
    OBVIOUS
  <1> DEFINE Out(k, t) == media'[k][t] \in {"out", media[k][t]}
  <1>0. ASSUME \A k \in Meetings, t \in Sockets : Out(k, t) PROVE DevicesAgree'
    BY <1>0 DEF DevicesAgree, Inside
  <1>1. CASE UNCHANGED <<media, conn, todo>>
    BY <1>0, <1>1
  <1>2. ASSUME NEW s \in Sockets, NEW m \in Meetings, NEW h \in Handlers, End(h, s, m)
        PROVE  DevicesAgree'
    BY <1>0, <1>2, Emptying
  <1>3. ASSUME NEW s \in Sockets, NEW m \in Meetings, Leave(s, m) PROVE DevicesAgree'
    BY <1>0, <1>3, TakenOut DEF Leave
  <1>4. ASSUME NEW s \in Sockets, NEW m \in Meetings, NEW state \in States, Join(s, m, state)
        PROVE  DevicesAgree'
    <2>1. \A t \in Inside(m) : Owner[t] = Owner[s] => media[m][t] = Inherited(s, m, state)
      <3>1. ASSUME NEW t \in Inside(m), Owner[t] = Owner[s]
            PROVE  media[m][t] = Inherited(s, m, state)
        <4>1. PICK x \in Inside(m) : Owner[x] = Owner[s] /\ Inherited(s, m, state) = media[m][x]
          BY <3>1, InheritedState
        <4>2. QED
          BY <3>1, <4>1 DEF DevicesAgree
      <3>2. QED
        BY <3>1
    <2>2. QED
      BY <1>4, <2>1, Entering DEF DevicesAgree, Inside
  <1>5. ASSUME NEW s \in Sockets, NEW m \in Meetings, NEW state \in States, SetMedia(s, m, state)
        PROVE  DevicesAgree'
    BY <1>5, Changing DEF DevicesAgree, Inside
  <1>6. ASSUME NEW s \in Sockets, Connect(s) PROVE DevicesAgree'
    BY <1>0, <1>6 DEF Connect
  <1>7. ASSUME NEW s \in Sockets, NEW rest \in SUBSET Meetings, LeaveNext(s, rest)
        PROVE  DevicesAgree'
    <2>1. CASE Stays
      BY <1>0, <2>1 DEF Stays
    <2>2. ASSUME NEW m \in rest, IF s \in Inside(m) THEN Departs(s, m) ELSE Stays
          PROVE  DevicesAgree'
      BY <1>0, <2>2, TakenOut
    <2>3. QED
      BY <1>7, <2>1, <2>2 DEF LeaveNext
  <1>8. ASSUME NEW s \in Sockets, Disconnect(s) \/ LeavesNext(s) PROVE DevicesAgree'
    <2>1. In(s) \in SUBSET Meetings /\ todo[s] \in SUBSET Meetings
      BY DEF In, TypeOK
    <2>2. QED
      BY <1>7, <1>8, <2>1 DEF Disconnect, LeavesNext
  <1>9. QED
    BY Untouched, <1>1, <1>2, <1>3, <1>4, <1>5, <1>6, <1>8 DEF Touches
-----------------------------------------------------------------------------
(***************************************************************************)
(* Rooms nobody is in.                                                     *)
(***************************************************************************)
Empty(m) == open[m] /\ Inside(m) = {}

\* Its own timer is armed, or the query after which it will be has not returned.
Watched(m) ==
    \/ <<m, number[m]>> \in timers
    \/ \E h \in Handlers : /\ job[h].pc = "query" /\ job[h].fresh
                           /\ job[h].id = m /\ job[h].number = number[m]

LEMMA WatchedMeans == EmptyIsWatched <=> \A m \in Meetings : Empty(m) => Watched(m)
  BY DEF EmptyIsWatched, Empty, Watched

\* What does not free a request in its query, nor take a timer, keeps a room watched.
LEMMA StaysWatched ==
    ASSUME NEW m \in Meetings, Watched(m), number'[m] = number[m], timers \subseteq timers',
           \A h \in Handlers : job[h].pc = "query" => job'[h] = job[h]
    PROVE  Watched(m)'
  <1>1. CASE <<m, number[m]>> \in timers
    BY <1>1 DEF Watched
  <1>2. ASSUME NEW h \in Handlers, job[h].pc = "query", job[h].fresh,
               job[h].id = m, job[h].number = number[m]
        PROVE  Watched(m)'
    <2>1. job'[h] = job[h]
      BY <1>2
    <2>2. QED
      BY <1>2, <2>1 DEF Watched
  <1>3. QED
    BY <1>1, <1>2 DEF Watched

LEMMA WatchedStep == TypeOK /\ ~Fails /\ EmptyIsWatched /\ [Next]_vars => EmptyIsWatched'
  <1> SUFFICES ASSUME TypeOK, ~Fails, EmptyIsWatched, [Next]_vars,
                      NEW k \in Meetings, Empty(k)'
               PROVE  Watched(k)'
    BY DEF EmptyIsWatched, Empty, Watched
  <1>0. Empty(k) => Watched(k)
    BY WatchedMeans
  <1>1. ASSUME NEW h \in Handlers, NEW s \in Sockets, NEW m \in Meetings, NEW kind \in Kinds,
               NEW some \in SUBSET Employees, NEW again \in BOOLEAN,
               Invite(h, s, m, kind, some, again)
        PROVE  Watched(k)'
    <2>1. CASE m = k /\ ~open[k]
      <3>1. CASE kind = "all"
        <4>1. PICK calls : Await(h, [pc |-> "query", id |-> k, number |-> number'[k],
                                     fresh |-> ~open[k], calls |-> calls])
          BY <1>1, <2>1, <3>1 DEF Invite
        <4>2. /\ job'[h].pc = "query" /\ job'[h].fresh
              /\ job'[h].id = k /\ job'[h].number = number'[k]
          BY <2>1, <4>1 DEF Await, TypeOK
        <4>3. QED
          BY <4>2 DEF Watched
      <3>2. CASE kind # "all"
        BY <1>1, <2>1, <3>2 DEF Invite, Watched
      <3>3. QED
        BY <3>1, <3>2
    <2>2. CASE ~(m = k /\ ~open[k])
      <3>1. open'[k] = open[k] /\ number'[k] = number[k] /\ UNCHANGED media
        <4>1. CASE open[m]
          BY <1>1, <4>1 DEF Invite
        <4>2. CASE ~open[m]
          <5>1. Opened(m, IF kind = "all" THEN Employees ELSE some) /\ m # k /\ UNCHANGED media
            BY <1>1, <2>2, <4>2 DEF Invite
          <5>2. QED
            BY <5>1, OpenedType
        <4>3. QED
          BY <4>1, <4>2
      <3>2. timers \subseteq timers'
        BY <1>1 DEF Invite
      <3>3. \A g \in Handlers : job[g].pc = "query" => job'[g] = job[g]
        <4>1. job[h].pc = "idle"
          BY <1>1 DEF Invite, Free
        <4>2. UNCHANGED job \/ \E j : Await(h, j)
          BY <1>1 DEF Invite
        <4>3. QED
          BY <4>1, <4>2 DEF Await, TypeOK
      <3>4. Empty(k)
        BY <3>1 DEF Empty, Inside
      <3>5. QED
        BY <1>0, <3>1, <3>2, <3>3, <3>4, StaysWatched
    <2>3. QED
      BY <2>1, <2>2
  <1>2. ASSUME NEW h \in Handlers, NEW s \in Sockets, NEW m \in Meetings, End(h, s, m)
        PROVE  Watched(k)'
    <2>1. k # m /\ Empty(k)
      BY <1>2, Emptying DEF Empty, Inside, End, TypeOK
    <2>2. \A g \in Handlers : job[g].pc = "query" => job'[g] = job[g]
      <3>1. job[h].pc = "idle"
        BY <1>2 DEF End, Free
      <3>2. UNCHANGED job \/ \E j : Await(h, j)
        BY <1>2 DEF End
      <3>3. QED
        BY <3>1, <3>2 DEF Await, TypeOK
    <2>3. QED
      BY <1>0, <1>2, <2>1, <2>2, StaysWatched DEF End
  <1>3. ASSUME NEW s \in Sockets, NEW m \in Meetings,
               IF s \in Inside(m) THEN Departs(s, m) ELSE Stays
        PROVE  Watched(k)'
    <2>1. UNCHANGED <<number, timers, job>>
      BY <1>3 DEF Departs, Stays
    <2>2. Empty(k)
      <3>1. CASE Departs(s, m) /\ s \in Inside(m)
        <4>1. open[k] /\ ~(k = m /\ Inside(m) = {s})
          BY <3>1 DEF Empty, Departs, TypeOK
        <4>2. \A t \in Sockets : t \in Inside(k) => k = m /\ t = s
          BY <1>3, TakenOut DEF Empty, Inside
        <4>3. Inside(k) \subseteq {s} /\ (k # m => Inside(k) = {})
          BY <4>2 DEF Inside
        <4>4. QED
          BY <4>1, <4>3 DEF Empty
      <3>2. CASE Stays
        BY <3>2 DEF Stays, Empty, Inside
      <3>3. QED
        BY <1>3, <3>1, <3>2
    <2>3. QED
      BY <1>0, <2>1, <2>2, StaysWatched
  <1>4. ASSUME NEW s \in Sockets, NEW m \in Meetings, NEW state \in States, Join(s, m, state)
        PROVE  Watched(k)'
    <2>1. k # m
      BY <1>4, Entering DEF Empty, Inside, States
    <2>2. open'[k] = open[k] /\ number'[k] = number[k]
      <3>1. CASE open[m]
        BY <1>4, <3>1 DEF Join
      <3>2. CASE ~open[m]
        <4>1. Opened(m, {}) /\ {} \in SUBSET Employees
          BY <1>4, <3>2 DEF Join
        <4>2. QED
          BY <2>1, <4>1, OpenedType
      <3>3. QED
        BY <3>1, <3>2
    <2>3. Empty(k)
      BY <1>4, <2>1, <2>2, Entering DEF Empty, Inside
    <2>4. QED
      BY <1>0, <1>4, <2>2, <2>3, StaysWatched DEF Join
  <1>5. ASSUME NEW s \in Sockets, NEW m \in Meetings, NEW state \in States, SetMedia(s, m, state)
        PROVE  Watched(k)'
    <2>1. \A t \in Sockets : media[k][t] # "out" => media'[k][t] # "out"
      BY <1>5, Changing DEF States
    <2>2. Empty(k)
      BY <1>5, <2>1 DEF SetMedia, Empty, Inside
    <2>3. QED
      BY <1>0, <1>5, <2>2, StaysWatched DEF SetMedia
  <1>6. ASSUME NEW h \in Handlers, Queried(h) PROVE Watched(k)'
    <2>1. Empty(k) /\ number'[k] = number[k] /\ timers \subseteq timers'
      BY <1>6 DEF Queried, Empty, Inside
    <2>2. CASE <<k, number[k]>> \in timers
      BY <2>1, <2>2 DEF Watched
    <2>3. ASSUME NEW g \in Handlers, job[g].pc = "query", job[g].fresh,
                 job[g].id = k, job[g].number = number[k]
          PROVE  Watched(k)'
      <3>1. CASE g = h
        BY <1>6, <2>1, <2>3, <3>1 DEF Queried, Watched
      <3>2. CASE g # h
        <4>1. job'[g] = job[g]
          BY <1>6, <3>2 DEF Queried, Await, TypeOK
        <4>2. QED
          BY <2>1, <2>3, <4>1 DEF Watched
      <3>3. QED
        BY <3>1, <3>2
    <2>4. QED
      BY <1>0, <2>1, <2>2, <2>3 DEF Watched
  <1>7. ASSUME NEW h \in Handlers, QueryFails(h) \/ Posted(h) \/ PostFails(h) \/ Kick(h)
        PROVE  Watched(k)'
    <2>1. Posted(h) \/ Kick(h)
      BY <1>7 DEF QueryFails, PostFails
    <2>2. \A g \in Handlers : job[g].pc = "query" => job'[g] = job[g]
      BY <2>1 DEF Posted, Kick, Await, TypeOK
    <2>3. UNCHANGED <<open, media, number, timers>>
      BY <2>1 DEF Posted, Kick
    <2>4. Empty(k)
      BY <2>3 DEF Empty, Inside
    <2>5. QED
      BY <1>0, <2>2, <2>3, <2>4, StaysWatched
  <1>8. ASSUME NEW m \in Meetings, NEW n \in Numbers, Closed(m, n) PROVE Watched(k)'
    <2>1. Empty(k)
      BY <1>8 DEF Closed, Empty, Inside
    <2>2. QED
      BY <1>0, <1>8, <2>1, StaysWatched DEF Closed
  <1>9. ASSUME NEW m \in Meetings, NEW n \in Numbers, IdleFires(m, n) PROVE Watched(k)'
    <2>1. UNCHANGED <<number, job, media>>
      BY <1>9 DEF IdleFires
    <2>2. Empty(k) /\ k # m
      BY <1>9, <2>1 DEF IdleFires, Empty, Inside, TypeOK
    <2>3. <<k, number[k]>> \in timers => <<k, number[k]>> \in timers'
      BY <1>9, <2>2 DEF IdleFires
    <2>4. QED
      BY <1>0, <2>1, <2>2, <2>3 DEF Watched
  <1>10. ASSUME NEW s \in Sockets, Connect(s) PROVE Watched(k)'
    <2>1. Empty(k)
      BY <1>10 DEF Connect, Empty, Inside
    <2>2. QED
      BY <1>0, <1>10, <2>1, StaysWatched DEF Connect
  <1>11. ASSUME NEW s \in Sockets, NEW rest \in SUBSET Meetings, LeaveNext(s, rest)
         PROVE  Watched(k)'
    <2>1. CASE Stays
      <3>1. Empty(k)
        BY <2>1 DEF Stays, Empty, Inside
      <3>2. QED
        BY <1>0, <2>1, <3>1, StaysWatched DEF Stays
    <2>2. QED
      BY <1>3, <1>11, <2>1 DEF LeaveNext
  <1>12. ASSUME NEW s \in Sockets, Disconnect(s) \/ LeavesNext(s) PROVE Watched(k)'
    <2>1. In(s) \in SUBSET Meetings /\ todo[s] \in SUBSET Meetings
      BY DEF In, TypeOK
    <2>2. QED
      BY <1>11, <1>12, <2>1 DEF Disconnect, LeavesNext
  <1>13. ASSUME NEW r \in Rooms, Closed(r[1], r[2]) \/ IdleFires(r[1], r[2]) PROVE Watched(k)'
    BY <1>8, <1>9, <1>13 DEF Rooms
  <1>14. CASE UNCHANGED vars
    <2>1. Empty(k)
      BY <1>14 DEF vars, Empty, Inside
    <2>2. QED
      BY <1>0, <1>14, <2>1, StaysWatched DEF vars
  <1>15. ASSUME NEW s \in Sockets, NEW m \in Meetings, Leave(s, m) PROVE Watched(k)'
    BY <1>3, <1>15 DEF Leave
  <1>16. ASSUME NEW h \in Handlers, Resume(h) PROVE Watched(k)'
    BY <1>6, <1>7, <1>16 DEF Resume
  <1>17. QED
    BY <1>1, <1>2, <1>4, <1>5, <1>10, <1>12, <1>13, <1>14, <1>15, <1>16 DEF Next
-----------------------------------------------------------------------------
LEMMA Beginning == Init => TypeOK /\ NoGhosts /\ DevicesAgree /\ EmptyIsWatched
  <1> SUFFICES ASSUME Init PROVE TypeOK /\ NoGhosts /\ DevicesAgree /\ EmptyIsWatched
    OBVIOUS
  <1>1. TypeOK
    <2>1. 0 \in 0..MaxRooms
      BY MeetingsAssumption
    <2>2. QED
      BY <2>1 DEF Init, TypeOK
  <1>2. \A m \in Meetings : Inside(m) = {} /\ ~open[m]
    BY DEF Init, Inside
  <1>3. QED
    BY <1>1, <1>2 DEF NoGhosts, DevicesAgree, EmptyIsWatched

\* The rooms in memory are well formed, and a room that is not there holds nobody.
THEOREM MeetingsTypeCorrect == Spec => []TypeOK
  BY Beginning, TypeStep, PTL DEF Spec

\* Nobody is shown in a room whose connection is gone, however many rooms a
\* disconnect handler still has to leave and whatever happens while it awaits.
THEOREM NobodyHauntsARoom == Spec => []NoGhosts
  BY Beginning, TypeStep, NoGhostsStep, PTL DEF Spec

\* Whatever order the devices of a person enter, change and leave in.
THEOREM DevicesAlwaysAgree == Spec => []DevicesAgree
  BY Beginning, TypeStep, DevicesStep, PTL DEF Spec

\* No room stays open with nobody in it and no timer to close it, though the timer
\* that is armed may be another room's, if the queries of invitations return.
THEOREM EmptyRoomsAreWatched == ~Fails /\ Spec => []EmptyIsWatched
  <1> SUFFICES ASSUME ~Fails PROVE Spec => []EmptyIsWatched
    OBVIOUS
  <1>1. TypeOK /\ EmptyIsWatched /\ [Next]_vars => EmptyIsWatched'
    BY WatchedStep
  <1>2. QED
    BY <1>1, Beginning, TypeStep, PTL DEF Spec
=============================================================================

---------------------------- MODULE TalksProofs ----------------------------
(***************************************************************************)
(* Proofs about calls and meetings side by side: what CallsProofs and      *)
(* MeetingsProofs show holds of every behaviour of MCTalks, for any number *)
(* of users, calls, rooms and connections; and what the members of a       *)
(* meeting see of each other (MeetingMesh), for any number of them.        *)
(***************************************************************************)
EXTENDS MCTalks, Sequences, TLAPS, WellFoundedInduction

\* One id that is used again: Meetings with what is proved about it ...
OP == INSTANCE MeetingsProofs WITH
    Meetings <- {Meeting}, Handlers <- Queries, row <- announcement, job <- work

LEMMA OneRoomAssumption == OP!MeetingsAssumption
  BY MeetingsAssumption DEF OP!MeetingsAssumption

LEMMA OneRoomStep == O!Next <=> OP!Next
  BY DEF O!Numbers, O!Rooms, O!States, O!Idle, O!Init, O!Inside, O!Present, O!In, O!Admin,
         O!Free, O!Await, O!Opened, O!Ring, O!Ended, O!Closing, O!Invite, O!Queried,
         O!QueryFails, O!Posted, O!PostFails, O!CanJoin, O!Inherited, O!Join, O!SetMedia,
         O!Departs, O!Stays, O!Leave, O!LeaveNext, O!Connect, O!Disconnect, O!LeavesNext,
         O!End, O!Close, O!Kick, O!Closed, O!IdleFires, O!Resume, O!Next, OP!Numbers, OP!Rooms,
         OP!States, OP!Idle, OP!Init, OP!Inside, OP!Present, OP!In, OP!Admin, OP!Free,
         OP!Await, OP!Opened, OP!Ring, OP!Ended, OP!Closing, OP!Invite, OP!Queried,
         OP!QueryFails, OP!Posted, OP!PostFails, OP!CanJoin, OP!Inherited, OP!Join,
         OP!SetMedia, OP!Departs, OP!Stays, OP!Leave, OP!LeaveNext, OP!Connect, OP!Disconnect,
         OP!LeavesNext, OP!End, OP!Close, OP!Kick, OP!Closed, OP!IdleFires, OP!Resume, OP!Next

LEMMA OneRoomSame == O!Spec => OP!Spec
  <1>1. O!Init => OP!Init
    BY DEF O!Init, OP!Init, O!Idle, OP!Idle, O!Rooms, OP!Rooms, O!Numbers, OP!Numbers
  <1>2. [O!Next]_(O!vars) => [OP!Next]_(OP!vars)
    BY OneRoomStep DEF O!vars, OP!vars
  <1> QED
    BY <1>1, <1>2, PTL DEF O!Spec, OP!Spec

LEMMA OneRoomHold == O!Spec => []O!TypeOK /\ []O!NoGhosts /\ []O!DevicesAgree
  <1>1. OP!NoGhosts => O!NoGhosts
    BY DEF OP!NoGhosts, O!NoGhosts, OP!Inside, O!Inside
  <1>2. OP!DevicesAgree => O!DevicesAgree
    BY DEF OP!DevicesAgree, O!DevicesAgree, OP!Inside, O!Inside
  <1>3. OP!Spec => []OP!TypeOK /\ []OP!NoGhosts /\ []OP!DevicesAgree
    BY OneRoomAssumption, OP!MeetingsTypeCorrect, OP!NobodyHauntsARoom, OP!DevicesAlwaysAgree
  <1>4. OP!TypeOK => O!TypeOK
    BY DEF OP!TypeOK, O!TypeOK, OP!States, O!States, OP!Numbers, O!Numbers, OP!Rooms,
           O!Rooms, OP!Idle, O!Idle, OP!Job, O!Job
  <1> QED
    BY <1>1, <1>2, <1>3, <1>4, OneRoomSame, PTL
-----------------------------------------------------------------------------
\* ... and several, each invited to once.
MP == INSTANCE MeetingsProofs WITH
    Kinds <- {"some"}, MaxRooms <- 1, Handlers <- Queries, row <- announcement, job <- work

LEMMA SomeRoomsAssumption == MP!MeetingsAssumption
  BY MeetingsAssumption DEF MP!MeetingsAssumption

LEMMA SomeRoomsStep == M!Next <=> MP!Next
  BY DEF M!Numbers, M!Rooms, M!States, M!Idle, M!Init, M!Inside, M!Present, M!In, M!Admin,
         M!Free, M!Await, M!Opened, M!Ring, M!Ended, M!Closing, M!Invite, M!Queried,
         M!QueryFails, M!Posted, M!PostFails, M!CanJoin, M!Inherited, M!Join, M!SetMedia,
         M!Departs, M!Stays, M!Leave, M!LeaveNext, M!Connect, M!Disconnect, M!LeavesNext,
         M!End, M!Close, M!Kick, M!Closed, M!IdleFires, M!Resume, M!Next, MP!Numbers, MP!Rooms,
         MP!States, MP!Idle, MP!Init, MP!Inside, MP!Present, MP!In, MP!Admin, MP!Free,
         MP!Await, MP!Opened, MP!Ring, MP!Ended, MP!Closing, MP!Invite, MP!Queried,
         MP!QueryFails, MP!Posted, MP!PostFails, MP!CanJoin, MP!Inherited, MP!Join,
         MP!SetMedia, MP!Departs, MP!Stays, MP!Leave, MP!LeaveNext, MP!Connect, MP!Disconnect,
         MP!LeavesNext, MP!End, MP!Close, MP!Kick, MP!Closed, MP!IdleFires, MP!Resume, MP!Next

LEMMA SomeRoomsSame == M!Spec => MP!Spec
  <1>1. M!Init => MP!Init
    BY DEF M!Init, MP!Init, M!Idle, MP!Idle, M!Rooms, MP!Rooms, M!Numbers, MP!Numbers
  <1>2. [M!Next]_(M!vars) => [MP!Next]_(MP!vars)
    BY SomeRoomsStep DEF M!vars, MP!vars
  <1> QED
    BY <1>1, <1>2, PTL DEF M!Spec, MP!Spec

LEMMA SomeRoomsHold == M!Spec => []M!TypeOK /\ []M!NoGhosts /\ []M!DevicesAgree
  <1>1. MP!NoGhosts => M!NoGhosts
    BY DEF MP!NoGhosts, M!NoGhosts, MP!Inside, M!Inside
  <1>2. MP!DevicesAgree => M!DevicesAgree
    BY DEF MP!DevicesAgree, M!DevicesAgree, MP!Inside, M!Inside
  <1>3. MP!Spec => []MP!TypeOK /\ []MP!NoGhosts /\ []MP!DevicesAgree
    BY SomeRoomsAssumption, MP!MeetingsTypeCorrect, MP!NobodyHauntsARoom, MP!DevicesAlwaysAgree
  <1>4. MP!TypeOK => M!TypeOK
    BY DEF MP!TypeOK, M!TypeOK, MP!States, M!States, MP!Numbers, M!Numbers, MP!Rooms,
           M!Rooms, MP!Idle, M!Idle, MP!Job, M!Job
  <1> QED
    BY <1>1, <1>2, <1>3, <1>4, SomeRoomsSame, PTL
-----------------------------------------------------------------------------
\* No step of one part moves another, and a request that is free, or a row that is not
\* there, is one like the others.
THEOREM TalksAreCalls == TalksSpec => Spec
  <1> DEFINE talks == <<vars, roomVars, meshVars, focus>>
  <1>1. TalksInit => Init
    BY DEF TalksInit
  <1>2. CallsNext => Next
    <2>1. ASSUME NEW u \in Users, IdleHandlers # {}, Request(First(IdleHandlers), u) PROVE Next
      <3>1. First(IdleHandlers) \in Handlers
        BY <2>1 DEF First, IdleHandlers
      <3> QED
        BY <2>1, <3>1 DEF Next
    <2> QED
      BY <2>1 DEF CallsNext, Next
  <1>3. [TalksNext]_talks => [Next]_vars
    BY <1>2 DEF TalksNext
  <1> QED
    BY <1>1, <1>3, PTL DEF TalksSpec, Spec

\* The rooms are those of one id or those of several, for good.
THEOREM TalksAreMeetings ==
    TalksSpec => \/ [](focus = "room") /\ O!Spec
                 \/ [](focus # "room") /\ M!Spec
  <1> DEFINE talks == <<vars, roomVars, meshVars, focus>>
  <1>1. TalksInit => \/ focus = "room" /\ O!Init
                     \/ focus # "room" /\ M!Init
    BY DEF TalksInit
  <1>2. [TalksNext]_talks /\ focus = "room" => (focus = "room")' /\ [O!Next]_(O!vars)
    BY DEF TalksNext, roomVars, O!vars
  <1>3. [TalksNext]_talks /\ focus # "room" => (focus # "room")' /\ [M!Next]_(M!vars)
    BY DEF TalksNext, roomVars, M!vars
  <1> QED
    BY <1>1, <1>2, <1>3, PTL DEF TalksSpec, O!Spec, M!Spec

\* RealtimeService and the disconnect handler: nobody is shown in a room whose connection
\* is gone, however many rooms there are to leave, one await after another.
THEOREM NobodyIsLeftBehind == TalksSpec => []NoGhosts
  <1>1. focus = "room" /\ O!NoGhosts => NoGhosts
    BY DEF NoGhosts
  <1>2. focus # "room" /\ M!NoGhosts => NoGhosts
    BY DEF NoGhosts
  <1> QED
    BY <1>1, <1>2, TalksAreMeetings, OneRoomHold, SomeRoomsHold, PTL

\* Join and setMeetingMedia: the devices of a person never show two states of the
\* microphone, in whatever order they enter, change it and leave.
THEOREM DevicesOfOnePerson == TalksSpec => []DevicesAgree
  <1>1. focus = "room" /\ O!DevicesAgree => DevicesAgree
    BY DEF DevicesAgree
  <1>2. focus # "room" /\ M!DevicesAgree => DevicesAgree
    BY DEF DevicesAgree
  <1> QED
    BY <1>1, <1>2, TalksAreMeetings, OneRoomHold, SomeRoomsHold, PTL
-----------------------------------------------------------------------------
\* What is under way, to the gateway and from it.
ToServer ==
    [type : {"join"}, n : P!Attempts] \cup [type : {"leave", "end"}]
    \cup [type : {"sdp"}, to : P!People, op : {"offer", "answer"}, n : Nat]
    \cup [type : {"ice"}, to : P!People]
FromServer ==
    [type : {"ack"}, n : P!Attempts, ok : BOOLEAN, who : SUBSET P!People]
    \cup [type : {"joined", "left"}, who : P!People] \cup [type : {"ended"}]
    \cup [type : {"sdp"}, who : P!People, op : {"offer", "answer"}, n : Nat]
    \cup [type : {"ice"}, who : P!People]

\* A number that is told is that of a connection that was made.
Numbers == \A p \in P!People :
    /\ \A i \in 1..Len(up[p]) : up[p][i].type = "sdp" => up[p][i].n <= made[p][up[p][i].to]
    /\ \A i \in 1..Len(down[p]) :
          down[p][i].type = "sdp" => down[p][i].n <= made[down[p][i].who][p]
    /\ \A t \in task[p] : t.op = "answer" => t.of <= made[t.who][p]

\* A peer connection that is there is the last one that was made.
Latest(pc, n) == pc = P!NoPeer \/ (pc.n = n /\ n # 0)

Typed ==
    /\ P!TypeOK
    /\ up \in [P!People -> Seq(ToServer)] /\ down \in [P!People -> Seq(FromServer)]
    /\ \A p \in P!People : phase[p] # "out" => tried[p] # 0
    /\ \A p, q \in P!People : Latest(peer[p][q], made[p][q])

\* A page waits for its last attempt only, and not when it is out.
PageFlows == \A p \in Pages : \A a \in P!Attempts :
    flow[p][a] # "none" => /\ a = tried[p] /\ phase[p] # "out"
                           /\ flow[p][a] = "ack" => phase[p] = "in"

LEMMA TypedInit == P!Init => Typed
  BY MeshAssumption DEF P!Init, Typed, Latest, P!TypeOK, P!NoPeer, P!Peer, P!Attempts

LEMMA HeadFacts ==
    ASSUME Typed, NEW p \in P!People, down[p] # <<>>
    PROVE  Head(down[p]) \in FromServer /\ Tail(down[p]) \in Seq(FromServer)
  BY DEF Typed

LEMMA TakesTyped ==
    ASSUME Typed, NEW p \in P!People, NEW type, P!Takes(p, type)
    PROVE  /\ down' \in [P!People -> Seq(FromServer)]
           /\ Head(down[p]) \in FromServer /\ Head(down[p]).type = type
           /\ type = "ack" => /\ Head(down[p]).n \in P!Attempts /\ Head(down[p]).ok \in BOOLEAN
                              /\ Head(down[p]).who \subseteq P!People
           /\ type \in {"joined", "left", "sdp", "ice"} => Head(down[p]).who \in P!People
           /\ type = "sdp" => Head(down[p]).n \in Nat /\ Head(down[p]).op \in {"offer", "answer"}
  <1>1. down[p] # <<>> /\ Head(down[p]).type = type /\ down' = [down EXCEPT ![p] = Tail(@)]
    BY DEF P!Takes
  <1>2. Head(down[p]) \in FromServer /\ Tail(down[p]) \in Seq(FromServer)
    BY <1>1, HeadFacts
  <1>3. QED
    BY <1>1, <1>2 DEF Typed, FromServer

LEMMA TearsTyped ==
    ASSUME Typed, NEW p \in P!People, P!Teardown(p)
    PROVE  /\ peer' \in [P!People -> [P!People -> P!Peer]]
           /\ local' \in [P!People -> 0..MaxJoins]
           /\ running' \in [P!People -> SUBSET P!Attempts]
           /\ joined' \in [P!People -> BOOLEAN]
           /\ members' \in [P!People -> SUBSET P!People]
           /\ \A q, r \in P!People : peer'[q][r].n <= made[q][r] /\ Latest(peer'[q][r], made[q][r])
           /\ \A q \in P!People : joined'[q] => joined[q] /\ q # p
  <1>1. P!NoPeer \in P!Peer /\ P!NoPeer.n = 0 /\ 0 \in 0..MaxJoins
    BY MeshAssumption DEF P!NoPeer, P!Peer
  <1>2. peer' = [peer EXCEPT ![p] = [q \in P!People |-> P!NoPeer]]
    BY DEF P!Teardown
  <1>3. /\ peer' \in [P!People -> [P!People -> P!Peer]]
        /\ \A q, r \in P!People : peer'[q][r] = IF q = p THEN P!NoPeer ELSE peer[q][r]
    BY <1>1, <1>2 DEF Typed, P!TypeOK
  <1>4. \A q, r \in P!People : peer'[q][r].n <= made[q][r]
    <2> SUFFICES ASSUME NEW q \in P!People, NEW r \in P!People PROVE peer'[q][r].n <= made[q][r]
      OBVIOUS
    <2>1. made[q][r] \in Nat /\ peer[q][r].n <= made[q][r]
      BY DEF Typed, P!TypeOK
    <2> QED
      BY <1>1, <1>3, <2>1
  <1>5. \A q, r \in P!People : Latest(peer'[q][r], made[q][r])
    <2>1. \A q, r \in P!People : Latest(peer[q][r], made[q][r])
      BY DEF Typed
    <2> QED
      BY <1>3, <2>1 DEF Latest
  <1> QED
    BY <1>1, <1>3, <1>4, <1>5 DEF Typed, P!TypeOK, P!Teardown

LEMMA CreatesTyped ==
    ASSUME Typed, NEW p \in P!People, NEW who \in SUBSET P!People, P!Creates(p, who)
    PROVE  /\ peer' \in [P!People -> [P!People -> P!Peer]]
           /\ made' \in [P!People -> [P!People -> Nat]]
           /\ \A q, r \in P!People : peer'[q][r].n <= made'[q][r] /\ made[q][r] <= made'[q][r]
           /\ \A q, r \in P!People : Latest(peer'[q][r], made'[q][r])
  <1> DEFINE new == {q \in who : peer[p][q] = P!NoPeer}
  <1>1. /\ peer' = [peer EXCEPT ![p] = [q \in P!People |-> IF q \in new THEN P!Fresh(p, q) ELSE @[q]]]
        /\ made' = [made EXCEPT ![p] = [q \in P!People |-> IF q \in new THEN @[q] + 1 ELSE @[q]]]
    BY DEF P!Creates
  <1>2. \A q \in P!People : P!Fresh(p, q) \in P!Peer /\ P!Fresh(p, q).n = made[p][q] + 1
    <2>1. local[p] \in 0..MaxJoins /\ \A q \in P!People : made[p][q] + 1 \in Nat
      BY DEF Typed, P!TypeOK
    <2> QED
      BY <2>1 DEF P!Fresh, P!Peer
  <1>3. /\ peer' \in [P!People -> [P!People -> P!Peer]]
        /\ \A q, r \in P!People :
              peer'[q][r] = IF q = p /\ r \in new THEN P!Fresh(p, r) ELSE peer[q][r]
    BY <1>1, <1>2 DEF Typed, P!TypeOK
  <1>4. /\ made' \in [P!People -> [P!People -> Nat]]
        /\ \A q, r \in P!People :
              made'[q][r] = IF q = p /\ r \in new THEN made[q][r] + 1 ELSE made[q][r]
    BY <1>1 DEF Typed, P!TypeOK
  <1>5. ASSUME NEW q \in P!People, NEW r \in P!People
        PROVE  peer'[q][r].n <= made'[q][r] /\ made[q][r] <= made'[q][r]
    <2>1. made[q][r] \in Nat /\ peer[q][r].n \in Nat /\ peer[q][r].n <= made[q][r]
      BY DEF Typed, P!TypeOK, P!Peer
    <2> QED
      BY <1>2, <1>3, <1>4, <2>1
  <1>6. ASSUME NEW q \in P!People, NEW r \in P!People
        PROVE  Latest(peer'[q][r], made'[q][r])
    <2>1. made[q][r] \in Nat /\ Latest(peer[q][r], made[q][r])
      BY DEF Typed, P!TypeOK
    <2> QED
      BY <1>2, <1>3, <1>4, <2>1 DEF Latest
  <1> QED
    BY <1>3, <1>4, <1>5, <1>6

LEMMA FlowsTyped ==
    ASSUME Typed, NEW p \in P!People, NEW a \in P!Attempts,
           NEW w \in {"none", "media", "ice", "ack"}, P!Flows(p, a, w)
    PROVE  flow' \in [P!People -> [P!Attempts -> {"none", "media", "ice", "ack"}]]
  BY DEF Typed, P!TypeOK, P!Flows

LEMMA SendTyped ==
    ASSUME Typed, NEW p \in P!People, NEW ms \in Seq(ToServer), P!Send(p, ms)
    PROVE  up' \in [P!People -> Seq(ToServer)]
  BY DEF Typed, P!Send

LEMMA TellTyped ==
    ASSUME Typed, NEW who, NEW m \in FromServer, P!Tell(who, m)
    PROVE  down' \in [P!People -> Seq(FromServer)]
  BY DEF Typed, P!Tell

LEMMA ServeTyped ==
    ASSUME Typed, NEW p \in P!People, P!Serve(p)
    PROVE  Typed'
  <1>1. up[p] # <<>> /\ up' = [up EXCEPT ![p] = Tail(@)]
    BY DEF P!Serve
  <1> DEFINE m == Head(up[p])
  <1>2. m \in ToServer /\ up' \in [P!People -> Seq(ToServer)]
    BY <1>1 DEF Typed
  <1> SUFFICES /\ down' \in [P!People -> Seq(FromServer)]
               /\ door' \in BOOLEAN /\ room' \subseteq P!People /\ (room' # {} => door')
    BY <1>2 DEF Typed, P!TypeOK, P!Serve, P!Peer, P!Task
  <1>3. CASE m.type = "join" /\ P!Join(p, m)
    <2> DEFINE ok == p \in Pages \/ door
               ack == [type |-> "ack", n |-> m.n, ok |-> ok, who |-> room \ {p}]
    <2>1. ack \in FromServer /\ [type |-> "joined", who |-> p] \in FromServer
      BY <1>2, <1>3 DEF FromServer, ToServer, Typed, P!TypeOK
    <2>2. \A q \in P!People : Append(down[q], ack) \in Seq(FromServer)
                            /\ Append(down[q], [type |-> "joined", who |-> p]) \in Seq(FromServer)
      BY <2>1 DEF Typed
    <2>3. down' \in [P!People -> Seq(FromServer)]
      BY <1>3, <2>2 DEF P!Join, Typed
    <2>4. /\ door' = (door \/ ok)
          /\ room' = IF ok THEN room \cup {p} ELSE room
      BY <1>3 DEF P!Join
    <2>5. door' \in BOOLEAN /\ room' \subseteq P!People /\ (room' # {} => door')
      BY <2>4 DEF Typed, P!TypeOK
    <2> QED
      BY <2>3, <2>5
  <1>4. CASE m.type = "leave" /\ P!Leave(p)
    <2>1. [type |-> "ended"] \in FromServer /\ [type |-> "left", who |-> p] \in FromServer
      BY DEF FromServer
    <2>2. down' \in [P!People -> Seq(FromServer)]
      BY <1>4, <2>1, TellTyped DEF P!Leave, Typed
    <2> QED
      BY <1>4, <2>2 DEF P!Leave, Typed, P!TypeOK
  <1>5. CASE m.type = "end" /\ P!End
    <2>1. [type |-> "ended"] \in FromServer
      BY DEF FromServer
    <2>2. down' \in [P!People -> Seq(FromServer)]
      BY <1>5, <2>1, TellTyped DEF P!End, Typed
    <2> QED
      BY <1>5, <2>2 DEF P!End
  <1>6. CASE m.type = "sdp" /\ P!Relay(p, m)
    <2>1. [type |-> "sdp", who |-> p, op |-> m.op, n |-> m.n] \in FromServer
      BY <1>2, <1>6 DEF FromServer, ToServer
    <2>2. down' \in [P!People -> Seq(FromServer)]
      BY <1>6, <2>1, TellTyped DEF P!Relay
    <2> QED
      BY <1>6, <2>2 DEF P!Relay, Typed, P!TypeOK
  <1>7. CASE m.type = "ice" /\ P!RelayIce(p, m)
    <2>1. [type |-> "ice", who |-> p] \in FromServer
      BY DEF FromServer
    <2>2. down' \in [P!People -> Seq(FromServer)]
      BY <1>7, <2>1, TellTyped DEF P!RelayIce
    <2> QED
      BY <1>7, <2>2 DEF P!RelayIce, Typed, P!TypeOK
  <1> QED
    BY <1>3, <1>4, <1>5, <1>6, <1>7 DEF P!Serve

\* The greatest of some numbers that are bounded.
LEMMA Greatest ==
    ASSUME NEW S \in SUBSET Nat, S # {}, NEW b \in Nat, \A n \in S : n <= b
    PROVE  (CHOOSE n \in S : \A k \in S : k <= n) \in S
  <1> DEFINE T == {n \in Nat : \A k \in S : k <= n}
  <1>1. b \in T
    OBVIOUS
  <1>2. PICK m \in T : \A n \in T : ~(<<n, m>> \in OpToRel(<, Nat))
    BY <1>1, NatLessThanWellFounded, WFMin
  <1>3. \A n \in T : ~(n < m)
    BY <1>2 DEF OpToRel
  <1>4. m \in S
    <2>1. CASE m = 0
      <3>1. PICK k \in S : k <= 0 /\ k \in Nat
        BY <2>1
      <3> QED
        BY <2>1, <3>1
    <2>2. CASE m # 0 /\ m \notin S
      <3>1. m - 1 \in T
        BY <2>2
      <3> QED
        BY <1>3, <2>2, <3>1
    <2> QED
      BY <2>1, <2>2
  <1> QED
    BY <1>4

LEMMA PageTyped ==
    ASSUME Typed, NEW p \in P!People,
           \/ P!Start(p) \/ P!PageEnters(p) \/ P!PageRefused(p)
           \/ \E forAll \in BOOLEAN : P!PageLeaves(p, forAll)
    PROVE  Typed'
  <1>1. P!Attempts = 1..MaxJoins /\ tried[p] \in Nat /\ tried[p] <= MaxJoins
    BY DEF P!Attempts, Typed, P!TypeOK
  <1>2. CASE P!Start(p)
    <2>1. tried' = [tried EXCEPT ![p] = @ + 1] /\ tried[p] < MaxJoins /\ ~joined[p]
      BY <1>2 DEF P!Start, Typed, P!TypeOK
    <2>2. tried' \in [P!People -> 0..MaxJoins] /\ tried'[p] # 0
      BY <1>1, <2>1, MeshAssumption DEF Typed, P!TypeOK
    <2>3. /\ phase' \in [P!People -> {"out", "opening", "in"}]
          /\ flow' \in [P!People -> [P!Attempts -> {"none", "media", "ice", "ack"}]]
      BY <1>2 DEF P!Start, P!Flows, Typed, P!TypeOK
    <2> QED
      BY <1>1, <1>2, <2>1, <2>2, <2>3 DEF P!Start, P!Still, Typed, P!TypeOK
  <1>3. CASE P!PageEnters(p)
    <2>1. tried[p] \in P!Attempts
      BY <1>1, <1>3 DEF P!PageEnters, Typed
    <2>2. <<[type |-> "join", n |-> tried[p]]>> \in Seq(ToServer)
      BY <2>1 DEF ToServer
    <2>3. up' \in [P!People -> Seq(ToServer)]
      BY <1>3, <2>2, SendTyped DEF P!PageEnters
    <2> QED
      BY <1>1, <1>3, <2>1, <2>3 DEF P!PageEnters, P!Flows, P!Still, Typed, P!TypeOK
  <1>4. CASE P!PageRefused(p)
    BY <1>1, <1>4 DEF P!PageRefused, P!Gone, P!Flows, P!Still, Typed, P!TypeOK
  <1>5. ASSUME NEW forAll \in BOOLEAN, P!PageLeaves(p, forAll) PROVE Typed'
    <2> DEFINE ms == (IF forAll THEN <<[type |-> "end"]>> ELSE <<>>)
                     \o (IF joined[p] THEN <<[type |-> "leave"]>> ELSE <<>>)
    <2>1. ms \in Seq(ToServer)
      <3>1. /\ <<[type |-> "end"]>> \in Seq(ToServer) /\ <<[type |-> "leave"]>> \in Seq(ToServer)
            /\ <<>> \in Seq(ToServer)
        BY DEF ToServer
      <3> QED
        BY <3>1
    <2>2. up' \in [P!People -> Seq(ToServer)]
      BY <1>5, <2>1, SendTyped DEF P!PageLeaves
    <2>3. P!Teardown(p)
      BY <1>5 DEF P!PageLeaves
    <2> QED
      BY <1>1, <1>5, <2>2, <2>3, TearsTyped
         DEF P!PageLeaves, P!Gone, P!Flows, P!Still, Typed, P!TypeOK
  <1> QED
    BY <1>2, <1>3, <1>4, <1>5

LEMMA Respelled ==
    ASSUME NEW pc \in P!Peer, NEW w \in Nat,
           NEW st \in {"none", "new", "offered", "remote", "stable"}
    PROVE  /\ [pc EXCEPT !.st = st] \in P!Peer /\ [pc EXCEPT !.st = st].n = pc.n
           /\ [pc EXCEPT !.st = st, !.with = w] \in P!Peer
           /\ [pc EXCEPT !.st = st, !.with = w].n = pc.n
  BY DEF P!Peer

LEMMA PeerWritten ==
    ASSUME Typed, NEW p \in P!People, NEW q \in P!People, NEW pc \in P!Peer,
           peer' = [peer EXCEPT ![p][q] = pc]
    PROVE  /\ peer' \in [P!People -> [P!People -> P!Peer]]
           /\ \A x, y \in P!People : peer'[x][y] = IF x = p /\ y = q THEN pc ELSE peer[x][y]
  <1>1. peer \in [P!People -> [P!People -> P!Peer]]
    BY DEF Typed, P!TypeOK
  <1> QED
    BY <1>1

LEMMA SamePeers ==
    ASSUME Typed, NEW p \in P!People, NEW q \in P!People,
           NEW pc \in P!Peer, pc.n <= made[p][q], Latest(pc, made[p][q]),
           peer' = peer \/ peer' = [peer EXCEPT ![p][q] = pc]
    PROVE  /\ peer' \in [P!People -> [P!People -> P!Peer]]
           /\ \A x, y \in P!People : peer'[x][y].n <= made[x][y] /\ Latest(peer'[x][y], made[x][y])
  <1>1. CASE peer' = peer
    BY <1>1 DEF Typed, P!TypeOK
  <1>2. CASE peer' = [peer EXCEPT ![p][q] = pc]
    <2>1. /\ peer' \in [P!People -> [P!People -> P!Peer]]
          /\ \A x, y \in P!People : peer'[x][y] = IF x = p /\ y = q THEN pc ELSE peer[x][y]
      BY <1>2, PeerWritten
    <2>2. \A x, y \in P!People : peer[x][y].n <= made[x][y] /\ Latest(peer[x][y], made[x][y])
      BY DEF Typed, P!TypeOK
    <2> QED
      BY <2>1, <2>2
  <1> QED
    BY <1>1, <1>2

LEMMA PeerFacts ==
    ASSUME Typed, NEW p \in P!People, NEW q \in P!People
    PROVE  /\ peer[p][q] \in P!Peer /\ peer[p][q].n \in Nat /\ peer[p][q].n <= made[p][q]
           /\ made[p][q] \in Nat /\ Latest(peer[p][q], made[p][q])
           /\ local[p] \in 0..MaxJoins
  BY DEF Typed, P!TypeOK, P!Peer

LEMMA FreshTyped ==
    ASSUME Typed, NEW p \in P!People, NEW q \in P!People, NEW a \in 0..MaxJoins
    PROVE  /\ P!Fresh(p, q) \in P!Peer /\ P!Fresh(p, q).n = made[p][q] + 1
           /\ [P!Fresh(p, q) EXCEPT !.src = a] \in P!Peer
           /\ [P!Fresh(p, q) EXCEPT !.src = a].n = made[p][q] + 1
  <1>1. local[p] \in 0..MaxJoins /\ made[p][q] + 1 \in Nat
    BY PeerFacts
  <1> QED
    BY <1>1 DEF P!Fresh, P!Peer

LEMMA AppliedTyped ==
    ASSUME Typed, NEW p \in P!People, NEW q \in P!People, NEW n \in Nat,
           NEW pc \in P!Peer, pc.n \in Nat, pc.n # 0, made[p][q] <= pc.n,
           peer' = [peer EXCEPT ![p][q] = pc] \/ peer' = [peer EXCEPT ![p][q] = P!Applied(pc, n)],
           made' = [made EXCEPT ![p][q] = pc.n]
    PROVE  /\ peer' \in [P!People -> [P!People -> P!Peer]]
           /\ made' \in [P!People -> [P!People -> Nat]]
           /\ \A x, y \in P!People : peer'[x][y].n <= made'[x][y] /\ Latest(peer'[x][y], made'[x][y])
           /\ \A x, y \in P!People : made[x][y] <= made'[x][y]
  <1>1. P!Applied(pc, n) \in P!Peer /\ P!Applied(pc, n).n = pc.n
    BY Respelled DEF P!Applied
  <1>2. PICK new \in P!Peer : new.n = pc.n /\ peer' = [peer EXCEPT ![p][q] = new]
    BY <1>1
  <1>3. /\ peer' \in [P!People -> [P!People -> P!Peer]]
        /\ \A x, y \in P!People : peer'[x][y] = IF x = p /\ y = q THEN new ELSE peer[x][y]
    BY <1>2, PeerWritten
  <1>4. made \in [P!People -> [P!People -> Nat]]
    BY DEF Typed, P!TypeOK
  <1>5. /\ made' \in [P!People -> [P!People -> Nat]]
        /\ \A x, y \in P!People : made'[x][y] = IF x = p /\ y = q THEN pc.n ELSE made[x][y]
    BY <1>4
  <1>6. ASSUME NEW x \in P!People, NEW y \in P!People
        PROVE  /\ peer'[x][y].n <= made'[x][y] /\ made[x][y] <= made'[x][y]
               /\ Latest(peer'[x][y], made'[x][y])
    <2>1. CASE x = p /\ y = q
      BY <1>2, <1>3, <1>5, <2>1 DEF Latest
    <2>2. CASE ~(x = p /\ y = q)
      BY <1>3, <1>5, <2>2, PeerFacts
    <2> QED
      BY <2>1, <2>2
  <1> QED
    BY <1>3, <1>5, <1>6

LEMMA DescribedTyped ==
    ASSUME Typed, NEW p \in P!People, NEW t \in task[p], P!Described(p, t)
    PROVE  Typed'
  <1>1. t \in P!Task /\ t.who \in P!People
    BY DEF Typed, P!TypeOK, P!Task
  <1> DEFINE st == IF t.op = "offer" THEN "offered" ELSE "stable"
             new == [peer[p][t.who] EXCEPT !.st = st]
  <1>2. new \in P!Peer /\ new.n = peer[p][t.who].n /\ new.n <= made[p][t.who]
    BY <1>1, PeerFacts, Respelled
  <1>3. peer' = peer \/ (peer[p][t.who].n # 0 /\ peer' = [peer EXCEPT ![p][t.who] = new])
    BY <1>1 DEF P!Described
  <1>4. /\ peer' \in [P!People -> [P!People -> P!Peer]]
        /\ \A x, y \in P!People : peer'[x][y].n <= made[x][y] /\ Latest(peer'[x][y], made[x][y])
    <2>1. CASE peer' = peer
      BY <2>1 DEF Typed, P!TypeOK
    <2>2. CASE peer[p][t.who].n # 0 /\ peer' = [peer EXCEPT ![p][t.who] = new]
      <3>1. Latest(new, made[p][t.who])
        BY <1>1, <1>2, <2>2, PeerFacts DEF Latest, P!NoPeer
      <3> QED
        BY <1>1, <1>2, <2>2, <3>1, SamePeers
    <2> QED
      BY <1>3, <2>1, <2>2
  <1>5. <<[type |-> "sdp", to |-> t.who, op |-> t.op, n |-> t.n]>> \in Seq(ToServer)
    BY <1>1 DEF ToServer, P!Task
  <1>6. up' \in [P!People -> Seq(ToServer)]
    BY <1>5, SendTyped DEF P!Described, Typed
  <1>7. task' \in [P!People -> SUBSET P!Task]
    BY DEF P!Described, Typed, P!TypeOK
  <1> QED
    BY <1>4, <1>6, <1>7 DEF P!Described, Typed, P!TypeOK

LEMMA AnsweredTyped ==
    ASSUME Typed, NEW p \in P!People, NEW m, m.who \in P!People, m.n \in Nat, P!Answered(p, m)
    PROVE  /\ peer' \in [P!People -> [P!People -> P!Peer]]
           /\ \A x, y \in P!People : peer'[x][y].n <= made[x][y] /\ Latest(peer'[x][y], made[x][y])
  <1> DEFINE new == [peer[p][m.who] EXCEPT !.st = "stable", !.with = m.n]
  <1>1. new \in P!Peer /\ new.n = peer[p][m.who].n /\ new.n <= made[p][m.who]
    BY PeerFacts, Respelled
  <1>2. CASE peer[p][m.who].st = "offered"
    <2>1. peer' = [peer EXCEPT ![p][m.who] = new]
      BY <1>2 DEF P!Answered, Typed, P!TypeOK
    <2>2. Latest(new, made[p][m.who])
      BY <1>1, <1>2, PeerFacts DEF Latest, P!NoPeer
    <2> QED
      BY <1>1, <2>1, <2>2, SamePeers
  <1>3. CASE peer[p][m.who].st # "offered"
    BY <1>3 DEF P!Answered, Typed, P!TypeOK
  <1> QED
    BY <1>2, <1>3

LEMMA TasksTyped ==
    ASSUME Typed, NEW p \in P!People, NEW ts \in SUBSET P!Task, P!Tasks(p, ts)
    PROVE  task' \in [P!People -> SUBSET P!Task]
  BY DEF Typed, P!TypeOK, P!Tasks

LEMMA PageHearsTyped ==
    ASSUME Typed, PageFlows, NEW p \in P!People,
           \/ P!PageTakesAck(p) \/ P!PageTakesJoined(p) \/ P!PageTakesLeft(p)
           \/ P!PageTakesEnded(p) \/ P!PageTakesIce(p)
    PROVE  Typed'
  <1> DEFINE m == Head(down[p])
  <1>1. CASE P!PageTakesAck(p)
    <2>1. /\ down' \in [P!People -> Seq(FromServer)]
          /\ m.n \in P!Attempts /\ m.who \subseteq P!People
      BY <1>1, TakesTyped DEF P!PageTakesAck
    <2>2. CASE flow[p][m.n] # "ack"
      BY <1>1, <2>1, <2>2 DEF P!PageTakesAck, Typed, P!TypeOK
    <2>3. CASE flow[p][m.n] = "ack" /\ ~m.ok
      <3>1. P!Teardown(p) /\ P!Gone(p) /\ P!Flows(p, m.n, "none") /\ UNCHANGED <<made, task>>
        BY <1>1, <2>3 DEF P!PageTakesAck
      <3> QED
        BY <1>1, <2>1, <3>1, TearsTyped DEF P!PageTakesAck, P!Gone, P!Flows, Typed, P!TypeOK
    <2>4. CASE flow[p][m.n] = "ack" /\ m.ok
      <3>1. /\ joined' = [joined EXCEPT ![p] = TRUE]
            /\ P!Flows(p, m.n, "none")
            /\ P!Creates(p, m.who)
            /\ P!Tasks(p, P!Offers(m.who, peer'[p]))
            /\ UNCHANGED <<phase, local, running, members>>
        BY <1>1, <2>4 DEF P!PageTakesAck
      <3>2. /\ peer' \in [P!People -> [P!People -> P!Peer]]
            /\ made' \in [P!People -> [P!People -> Nat]]
            /\ \A q, r \in P!People : peer'[q][r].n <= made'[q][r] /\ Latest(peer'[q][r], made'[q][r])
        BY <2>1, <3>1, CreatesTyped
      <3>3. P!Offers(m.who, peer'[p]) \subseteq P!Task
        BY <2>1, <3>2 DEF P!Offers, P!Offer, P!Task, P!Peer
      <3>4. task' \in [P!People -> SUBSET P!Task]
        BY <3>1, <3>3, TasksTyped
      <3>5. p \in Pages /\ phase[p] = "in"
        BY <1>1, <2>1, <2>4 DEF P!PageTakesAck, PageFlows
      <3>6. /\ joined' \in [P!People -> BOOLEAN]
            /\ \A q \in P!People : joined'[q] => q \in Pages /\ phase[q] = "in"
        BY <3>1, <3>5 DEF Typed, P!TypeOK
      <3>7. flow' \in [P!People -> [P!Attempts -> {"none", "media", "ice", "ack"}]]
        BY <2>1, <3>1 DEF P!Flows, Typed, P!TypeOK
      <3> QED
        BY <1>1, <2>1, <3>1, <3>2, <3>4, <3>6, <3>7 DEF P!PageTakesAck, Typed, P!TypeOK
    <2> QED
      BY <2>2, <2>3, <2>4
  <1>2. CASE P!PageTakesJoined(p) \/ P!PageTakesIce(p)
    <2>1. down' \in [P!People -> Seq(FromServer)] /\ m.who \in P!People
      BY <1>2, TakesTyped DEF P!PageTakesJoined, P!PageTakesIce, P!PageHears
    <2>2. /\ peer' \in [P!People -> [P!People -> P!Peer]]
          /\ made' \in [P!People -> [P!People -> Nat]]
          /\ \A q, r \in P!People : peer'[q][r].n <= made'[q][r] /\ Latest(peer'[q][r], made'[q][r])
      <3> DEFINE who == IF phase[p] = "out" THEN {} ELSE {m.who}
      <3>1. who \in SUBSET P!People /\ P!Creates(p, who)
        BY <1>2, <2>1 DEF P!PageTakesJoined, P!PageTakesIce
      <3> QED
        BY <3>1, CreatesTyped
    <2> QED
      BY <1>2, <2>1, <2>2 DEF P!PageTakesJoined, P!PageTakesIce, P!Unmoved, Typed, P!TypeOK
  <1>3. CASE P!PageTakesLeft(p)
    <2>1. down' \in [P!People -> Seq(FromServer)] /\ m.who \in P!People
      BY <1>3, TakesTyped DEF P!PageTakesLeft, P!PageHears
    <2>2. P!NoPeer \in P!Peer /\ P!NoPeer.n <= made[p][m.who] /\ Latest(P!NoPeer, made[p][m.who])
      BY <2>1, PeerFacts, MeshAssumption DEF P!NoPeer, P!Peer, Latest
    <2>3. /\ peer' \in [P!People -> [P!People -> P!Peer]]
          /\ \A x, y \in P!People : peer'[x][y].n <= made[x][y] /\ Latest(peer'[x][y], made[x][y])
      BY <1>3, <2>1, <2>2, SamePeers DEF P!PageTakesLeft
    <2> QED
      BY <1>3, <2>1, <2>3 DEF P!PageTakesLeft, P!Unmoved, Typed, P!TypeOK
  <1>4. CASE P!PageTakesEnded(p)
    <2>1. down' \in [P!People -> Seq(FromServer)]
      BY <1>4, TakesTyped DEF P!PageTakesEnded, P!PageHears
    <2>2. CASE phase[p] = "out"
      BY <1>4, <2>1, <2>2 DEF P!PageTakesEnded, P!Still, Typed, P!TypeOK
    <2>3. CASE phase[p] # "out"
      <3>1. P!Teardown(p) /\ P!Gone(p) /\ P!Flows(p, tried[p], "none")
        BY <1>4, <2>3 DEF P!PageTakesEnded
      <3> QED
        BY <1>4, <2>1, <3>1, TearsTyped
           DEF P!PageTakesEnded, P!Still, P!Gone, P!Flows, Typed, P!TypeOK
    <2> QED
      BY <2>2, <2>3
  <1> QED
    BY <1>1, <1>2, <1>3, <1>4

LEMMA PageSdpTyped ==
    ASSUME Typed, NEW p \in P!People, P!PageTakesSdp(p)
    PROVE  Typed'
  <1> DEFINE m == Head(down[p])
  <1>1. /\ down' \in [P!People -> Seq(FromServer)]
        /\ m.who \in P!People /\ m.n \in Nat /\ m.op \in {"offer", "answer"}
    BY TakesTyped DEF P!PageTakesSdp, P!PageHears
  <1>2. CASE phase[p] = "out"
    BY <1>1, <1>2 DEF P!PageTakesSdp, P!Unmoved, Typed, P!TypeOK
  <1>3. CASE phase[p] # "out" /\ m.op = "answer"
    <2>1. P!Answered(p, m)
      BY <1>3 DEF P!PageTakesSdp
    <2>2. /\ peer' \in [P!People -> [P!People -> P!Peer]]
          /\ \A x, y \in P!People : peer'[x][y].n <= made[x][y] /\ Latest(peer'[x][y], made[x][y])
      BY <1>1, <2>1, AnsweredTyped
    <2> QED
      BY <1>1, <2>1, <2>2 DEF P!PageTakesSdp, P!Answered, P!Unmoved, Typed, P!TypeOK
  <1>4. CASE phase[p] # "out" /\ m.op # "answer"
    <2>1. PICK pc : /\ pc = IF peer[p][m.who] = P!NoPeer THEN P!Fresh(p, m.who) ELSE peer[p][m.who]
                    /\ peer' = [peer EXCEPT ![p][m.who] = P!Applied(pc, m.n)]
                    /\ made' = [made EXCEPT ![p][m.who] = pc.n]
                    /\ P!Tasks(p, {P!Answer(m.who, pc.n, m.n)})
                    /\ UNCHANGED creating
      BY <1>1, <1>4 DEF P!PageTakesSdp
    <2>2. pc \in P!Peer /\ pc.n \in Nat /\ pc.n # 0 /\ made[p][m.who] <= pc.n
      <3>1. local[p] \in 0..MaxJoins /\ made[p][m.who] \in Nat
        BY <1>1, PeerFacts
      <3>2. CASE peer[p][m.who] = P!NoPeer
        <4>1. pc = P!Fresh(p, m.who)
          BY <2>1, <3>2
        <4>2. pc \in P!Peer /\ pc.n = made[p][m.who] + 1
          BY <1>1, <3>1, <4>1, FreshTyped
        <4> QED
          BY <3>1, <4>2
      <3>3. CASE peer[p][m.who] # P!NoPeer
        BY <1>1, <2>1, <3>1, <3>3, PeerFacts DEF Latest
      <3> QED
        BY <3>2, <3>3
    <2>3. /\ peer' \in [P!People -> [P!People -> P!Peer]]
          /\ made' \in [P!People -> [P!People -> Nat]]
          /\ \A x, y \in P!People : peer'[x][y].n <= made'[x][y] /\ Latest(peer'[x][y], made'[x][y])
      BY <1>1, <2>1, <2>2, AppliedTyped
    <2>4. task' \in [P!People -> SUBSET P!Task]
      <3>1. P!Answer(m.who, pc.n, m.n) \in P!Task
        BY <1>1, <2>2 DEF P!Answer, P!Task
      <3> QED
        BY <2>1, <3>1, TasksTyped
    <2> QED
      BY <1>1, <2>1, <2>3, <2>4 DEF P!PageTakesSdp, P!Unmoved, Typed, P!TypeOK
  <1> QED
    BY <1>2, <1>3, <1>4

LEMMA PhoneTyped ==
    ASSUME Typed, NEW p \in P!People,
           \/ \E a \in P!Attempts : \/ P!PhoneMedia(p, a) \/ P!PhoneRefused(p, a)
                                   \/ P!PhoneAsks(p, a) \/ P!PhoneTimesOut(p, a)
           \/ P!PhoneLeaves(p)
    PROVE  Typed'
  <1>1. ASSUME NEW a \in P!Attempts, P!PhoneMedia(p, a) PROVE Typed'
    <2>1. a \in 0..MaxJoins
      BY DEF P!Attempts
    <2>2. flow' \in [P!People -> [P!Attempts -> {"none", "media", "ice", "ack"}]]
      BY <1>1, FlowsTyped DEF P!PhoneMedia
    <2>3. local' \in [P!People -> 0..MaxJoins] /\ running' \in [P!People -> SUBSET P!Attempts]
      <3>1. local \in [P!People -> 0..MaxJoins] /\ running \in [P!People -> SUBSET P!Attempts]
        BY DEF Typed, P!TypeOK
      <3> QED
        BY <1>1, <2>1, <3>1 DEF P!PhoneMedia
    <2> QED
      BY <1>1, <2>2, <2>3 DEF P!PhoneMedia, P!Still, Typed, P!TypeOK
  <1>2. ASSUME NEW a \in P!Attempts, P!PhoneRefused(p, a) PROVE Typed'
    <2>1. P!Teardown(p) /\ P!Gone(p) /\ P!Flows(p, a, "none")
      BY <1>2 DEF P!PhoneRefused, P!Fail
    <2>2. flow' \in [P!People -> [P!Attempts -> {"none", "media", "ice", "ack"}]]
      BY <2>1, FlowsTyped
    <2> QED
      BY <1>2, <2>1, <2>2, TearsTyped DEF P!PhoneRefused, P!Gone, P!Still, Typed, P!TypeOK
  <1>3. ASSUME NEW a \in P!Attempts, P!PhoneAsks(p, a) PROVE Typed'
    <2>1. <<[type |-> "join", n |-> a]>> \in Seq(ToServer)
      BY DEF ToServer
    <2>2. up' \in [P!People -> Seq(ToServer)]
      BY <1>3, <2>1, SendTyped DEF P!PhoneAsks
    <2> QED
      BY <1>3, <2>2 DEF P!PhoneAsks, P!Flows, P!Still, Typed, P!TypeOK
  <1>4. ASSUME NEW a \in P!Attempts, P!PhoneTimesOut(p, a) PROVE Typed'
    <2>1. CASE phase[p] = "opening"
      <3>1. P!Teardown(p) /\ P!Gone(p)
        BY <1>4, <2>1 DEF P!PhoneTimesOut, P!Fail
      <3> QED
        BY <1>4, <3>1, TearsTyped DEF P!PhoneTimesOut, P!Gone, P!Flows, P!Still, Typed, P!TypeOK
    <2>2. CASE phase[p] # "opening"
      BY <1>4, <2>2 DEF P!PhoneTimesOut, P!Flows, P!Still, Typed, P!TypeOK
    <2> QED
      BY <2>1, <2>2
  <1>5. CASE P!PhoneLeaves(p)
    <2>1. <<[type |-> "leave"]>> \in Seq(ToServer)
      BY DEF ToServer
    <2>2. up' \in [P!People -> Seq(ToServer)]
      BY <1>5, <2>1, SendTyped DEF P!PhoneLeaves
    <2>3. P!Teardown(p)
      BY <1>5 DEF P!PhoneLeaves
    <2> QED
      BY <1>5, <2>2, <2>3, TearsTyped DEF P!PhoneLeaves, P!Gone, P!Still, Typed, P!TypeOK
  <1> QED
    BY <1>1, <1>2, <1>3, <1>4, <1>5

LEMMA EnsuresTyped ==
    ASSUME Typed, NEW p \in P!People, NEW who \in SUBSET P!People, P!Ensures(p, who)
    PROVE  creating' \in [P!People -> SUBSET (P!People \X P!Attempts)]
  <1>1. local[p] = 0 \/ local[p] \in P!Attempts
    BY MeshAssumption DEF Typed, P!TypeOK, P!Attempts
  <1> QED
    BY <1>1 DEF P!Ensures, Typed, P!TypeOK

LEMMA PhoneHearsTyped ==
    ASSUME Typed, NEW p \in P!People,
           \/ P!PhoneTakesAck(p) \/ P!PhoneTakesJoined(p) \/ P!PhoneTakesLeft(p)
           \/ P!PhoneTakesEnded(p) \/ P!PhoneTakesIce(p)
    PROVE  Typed'
  <1> DEFINE m == Head(down[p])
  <1>1. CASE P!PhoneTakesAck(p)
    <2>1. /\ down' \in [P!People -> Seq(FromServer)]
          /\ m.n \in P!Attempts /\ m.who \in SUBSET P!People
      BY <1>1, TakesTyped DEF P!PhoneTakesAck
    <2>2. flow' \in [P!People -> [P!Attempts -> {"none", "media", "ice", "ack"}]]
      <3>1. flow \in [P!People -> [P!Attempts -> {"none", "media", "ice", "ack"}]]
        BY DEF Typed, P!TypeOK
      <3>2. flow' = [flow EXCEPT ![p][m.n] = IF @ = "ack" THEN "none" ELSE @]
        BY <1>1 DEF P!PhoneTakesAck
      <3> QED
        BY <2>1, <3>1, <3>2
    <2>3. CASE flow[p][m.n] # "ack" \/ phase[p] # "opening"
      <3>1. UNCHANGED <<phase, joined, local, running, peer, members, task, creating>>
        BY <1>1, <2>3 DEF P!PhoneTakesAck
      <3> QED
        BY <1>1, <2>1, <2>2, <3>1 DEF P!PhoneTakesAck, Typed, P!TypeOK
    <2>4. CASE flow[p][m.n] = "ack" /\ phase[p] = "opening" /\ ~m.ok
      <3>1. P!Teardown(p) /\ P!Gone(p) /\ UNCHANGED <<task, creating>>
        BY <1>1, <2>4 DEF P!PhoneTakesAck, P!Fail
      <3> QED
        BY <1>1, <2>1, <2>2, <3>1, TearsTyped DEF P!PhoneTakesAck, P!Gone, Typed, P!TypeOK
    <2>5. CASE flow[p][m.n] = "ack" /\ phase[p] = "opening" /\ m.ok
      <3>1. /\ phase' = [phase EXCEPT ![p] = "in"]
            /\ members' = [members EXCEPT ![p] = m.who]
            /\ P!Ensures(p, m.who)
            /\ P!Tasks(p, P!Offers(P!Ensured(p, m.who), peer[p]))
            /\ UNCHANGED <<joined, local, running, peer>>
        BY <1>1, <2>5 DEF P!PhoneTakesAck
      <3>2. P!Offers(P!Ensured(p, m.who), peer[p]) \in SUBSET P!Task
        <4>1. P!Ensured(p, m.who) \subseteq P!People
          BY <2>1 DEF P!Ensured
        <4>2. \A q \in P!People : P!Offer(q, peer[p][q].n) \in P!Task
          BY PeerFacts DEF P!Offer, P!Task
        <4> QED
          BY <4>1, <4>2 DEF P!Offers
      <3>3. task' \in [P!People -> SUBSET P!Task]
        BY <3>1, <3>2, TasksTyped
      <3>4. creating' \in [P!People -> SUBSET (P!People \X P!Attempts)]
        BY <2>1, <3>1, EnsuresTyped
      <3>5. ~joined[p]
        BY <2>5 DEF Typed, P!TypeOK
      <3> QED
        BY <1>1, <2>1, <2>2, <2>5, <3>1, <3>3, <3>4, <3>5 DEF P!PhoneTakesAck, Typed, P!TypeOK
    <2> QED
      BY <2>3, <2>4, <2>5
  <1>2. CASE P!PhoneTakesJoined(p)
    <2>1. down' \in [P!People -> Seq(FromServer)] /\ {m.who} \in SUBSET P!People
      BY <1>2, TakesTyped DEF P!PhoneTakesJoined, P!PhoneHears
    <2>2. creating' \in [P!People -> SUBSET (P!People \X P!Attempts)]
      <3>1. P!Ensures(p, {m.who}) \/ UNCHANGED creating
        BY <1>2 DEF P!PhoneTakesJoined
      <3>2. CASE UNCHANGED creating
        BY <3>2 DEF Typed, P!TypeOK
      <3>3. CASE P!Ensures(p, {m.who})
        BY <2>1, <3>3, EnsuresTyped
      <3> QED
        BY <3>1, <3>2, <3>3
    <2>3. members' \in [P!People -> SUBSET P!People]
      <3>1. members \in [P!People -> SUBSET P!People]
        BY DEF Typed, P!TypeOK
      <3>2. members' = members \/ members' = [members EXCEPT ![p] = @ \cup {m.who}]
        BY <1>2 DEF P!PhoneTakesJoined
      <3> QED
        BY <2>1, <3>1, <3>2
    <2> QED
      BY <1>2, <2>1, <2>2, <2>3 DEF P!PhoneTakesJoined, P!PhoneStays, Typed, P!TypeOK
  <1>3. CASE P!PhoneTakesLeft(p)
    <2>1. down' \in [P!People -> Seq(FromServer)] /\ m.who \in P!People
      BY <1>3, TakesTyped DEF P!PhoneTakesLeft, P!PhoneHears
    <2>2. P!NoPeer \in P!Peer /\ P!NoPeer.n <= made[p][m.who] /\ Latest(P!NoPeer, made[p][m.who])
      BY <2>1, PeerFacts, MeshAssumption DEF P!NoPeer, P!Peer, Latest
    <2>3. /\ peer' \in [P!People -> [P!People -> P!Peer]]
          /\ \A x, y \in P!People : peer'[x][y].n <= made[x][y] /\ Latest(peer'[x][y], made[x][y])
      BY <1>3, <2>1, <2>2, SamePeers DEF P!PhoneTakesLeft
    <2> QED
      BY <1>3, <2>1, <2>3 DEF P!PhoneTakesLeft, P!PhoneStays, Typed, P!TypeOK
  <1>4. CASE P!PhoneTakesEnded(p)
    <2>1. down' \in [P!People -> Seq(FromServer)]
      BY <1>4, TakesTyped DEF P!PhoneTakesEnded, P!PhoneHears
    <2>2. CASE phase[p] = "out"
      BY <1>4, <2>1, <2>2 DEF P!PhoneTakesEnded, P!Still, Typed, P!TypeOK
    <2>3. CASE phase[p] # "out"
      <3>1. P!Teardown(p) /\ P!Gone(p)
        BY <1>4, <2>3 DEF P!PhoneTakesEnded, P!Fail
      <3> QED
        BY <1>4, <2>1, <3>1, TearsTyped DEF P!PhoneTakesEnded, P!Still, P!Gone, Typed, P!TypeOK
    <2> QED
      BY <2>2, <2>3
  <1>5. CASE P!PhoneTakesIce(p)
    <2>1. down' \in [P!People -> Seq(FromServer)]
      BY <1>5, TakesTyped DEF P!PhoneTakesIce, P!PhoneHears
    <2> QED
      BY <1>5, <2>1 DEF P!PhoneTakesIce, P!PhoneStays, Typed, P!TypeOK
  <1> QED
    BY <1>1, <1>2, <1>3, <1>4, <1>5

LEMMA PhoneSdpTyped ==
    ASSUME Typed, NEW p \in P!People, P!PhoneTakesSdp(p)
    PROVE  Typed'
  <1> DEFINE m == Head(down[p])
             pc == peer[p][m.who]
  <1>1. /\ down' \in [P!People -> Seq(FromServer)]
        /\ m.who \in P!People /\ m.n \in Nat /\ m.op \in {"offer", "answer"}
    BY TakesTyped DEF P!PhoneTakesSdp, P!PhoneHears
  <1>2. CASE phase[p] = "out"
    BY <1>1, <1>2 DEF P!PhoneTakesSdp, P!PhoneStays, Typed, P!TypeOK
  <1>3. CASE phase[p] # "out" /\ m.op = "answer"
    <2>1. P!Answered(p, m)
      BY <1>3 DEF P!PhoneTakesSdp
    <2>2. /\ peer' \in [P!People -> [P!People -> P!Peer]]
          /\ \A x, y \in P!People : peer'[x][y].n <= made[x][y] /\ Latest(peer'[x][y], made[x][y])
      BY <1>1, <2>1, AnsweredTyped
    <2> QED
      BY <1>1, <2>1, <2>2 DEF P!PhoneTakesSdp, P!Answered, P!PhoneStays, Typed, P!TypeOK
  <1>4. CASE phase[p] # "out" /\ m.op = "offer" /\ pc # P!NoPeer
    <2>1. /\ UNCHANGED <<creating, made>>
          /\ \/ /\ peer' = [peer EXCEPT ![p][m.who] = P!Applied(pc, m.n)]
                /\ P!Tasks(p, {P!Answer(m.who, pc.n, m.n)})
             \/ UNCHANGED <<peer, task>>
      BY <1>4 DEF P!PhoneTakesSdp
    <2>2. /\ pc \in P!Peer /\ pc.n \in Nat /\ Latest(pc, made[p][m.who]) /\ made[p][m.who] \in Nat
          /\ P!Applied(pc, m.n) \in P!Peer /\ P!Applied(pc, m.n).n = pc.n
      BY <1>1, PeerFacts, Respelled DEF P!Applied
    <2>3. /\ peer' \in [P!People -> [P!People -> P!Peer]]
          /\ \A x, y \in P!People : peer'[x][y].n <= made[x][y] /\ Latest(peer'[x][y], made[x][y])
      <3>1. /\ P!Applied(pc, m.n).n <= made[p][m.who]
            /\ Latest(P!Applied(pc, m.n), made[p][m.who])
        BY <1>4, <2>2 DEF Latest
      <3>2. CASE UNCHANGED peer
        BY <3>2 DEF Typed, P!TypeOK
      <3> QED
        BY <1>1, <2>1, <2>2, <3>1, <3>2, SamePeers
    <2>4. task' \in [P!People -> SUBSET P!Task]
      <3>1. P!Answer(m.who, pc.n, m.n) \in P!Task
        BY <1>1, <2>2 DEF P!Answer, P!Task
      <3> QED
        BY <2>1, <3>1, TasksTyped DEF Typed, P!TypeOK
    <2> QED
      BY <1>1, <2>1, <2>3, <2>4 DEF P!PhoneTakesSdp, P!PhoneStays, Typed, P!TypeOK
  <1>5. CASE phase[p] # "out" /\ m.op = "offer" /\ pc = P!NoPeer
    <2>1. /\ P!Ensures(p, {m.who})
          /\ P!Tasks(p, {P!Answer(q, 0, m.n) : q \in P!Ensured(p, {m.who})})
          /\ UNCHANGED peer
      BY <1>5 DEF P!PhoneTakesSdp
    <2>2. {P!Answer(q, 0, m.n) : q \in P!Ensured(p, {m.who})} \in SUBSET P!Task
      BY <1>1 DEF P!Ensured, P!Answer, P!Task
    <2>3. /\ task' \in [P!People -> SUBSET P!Task]
          /\ creating' \in [P!People -> SUBSET (P!People \X P!Attempts)]
      BY <1>1, <2>1, <2>2, TasksTyped, EnsuresTyped
    <2> QED
      BY <1>1, <2>1, <2>3 DEF P!PhoneTakesSdp, P!PhoneStays, Typed, P!TypeOK
  <1> QED
    BY <1>1, <1>2, <1>3, <1>4, <1>5

LEMMA CreatedTyped ==
    ASSUME Typed, Numbers, NEW p \in P!People, NEW q \in P!People, NEW a \in P!Attempts,
           P!PhoneCreated(p, q, a)
    PROVE  Typed' /\ \A x, y \in P!People : made[x][y] <= made'[x][y]
  <1> DEFINE waiting == {t \in task[p] : t.who = q /\ t.n = 0}
             asked == {t.of : t \in {w \in waiting : w.op = "answer"}}
             best == CHOOSE n \in asked : \A k \in asked : k <= n
  <1> DEFINE pc == [P!Fresh(p, q) EXCEPT !.src = a]
  <1>1. /\ made' = [made EXCEPT ![p][q] = pc.n]
        /\ task' = [task EXCEPT ![p] = (@ \ waiting) \cup
                                       {[t EXCEPT !.n = pc.n] : t \in waiting}]
        /\ peer' = [peer EXCEPT ![p][q] =
                       IF asked = {} THEN pc ELSE P!Applied(pc, best)]
    BY DEF P!PhoneCreated
  <1>2. a \in 0..MaxJoins /\ made[p][q] \in Nat
    BY PeerFacts DEF P!Attempts
  <1>3. pc \in P!Peer /\ pc.n \in Nat /\ pc.n # 0 /\ made[p][q] <= pc.n
    BY <1>2, FreshTyped
  <1> HIDE DEF pc
  <1>4. task[p] \in SUBSET P!Task
    BY DEF Typed, P!TypeOK
  <1>5. asked # {} => best \in Nat
    <2>1. asked \in SUBSET Nat
      BY <1>4 DEF P!Task
    <2>2. \A n \in asked : n <= made[q][p]
      BY DEF Numbers
    <2>3. made[q][p] \in Nat
      BY PeerFacts
    <2> HIDE DEF asked
    <2> QED
      BY <2>1, <2>2, <2>3, Greatest
  <1>6. /\ peer' \in [P!People -> [P!People -> P!Peer]]
        /\ made' \in [P!People -> [P!People -> Nat]]
        /\ \A x, y \in P!People : peer'[x][y].n <= made'[x][y] /\ Latest(peer'[x][y], made'[x][y])
        /\ \A x, y \in P!People : made[x][y] <= made'[x][y]
    <2> HIDE DEF asked, best
    <2>1. CASE asked = {}
      BY <1>1, <1>3, <2>1, AppliedTyped
    <2>2. CASE asked # {}
      BY <1>1, <1>3, <1>5, <2>2, AppliedTyped
    <2> QED
      BY <2>1, <2>2
  <1>7. task' \in [P!People -> SUBSET P!Task]
    <2>1. \A t \in waiting : [t EXCEPT !.n = pc.n] \in P!Task
      BY <1>3, <1>4 DEF P!Task
    <2>2. (task[p] \ waiting) \cup {[t EXCEPT !.n = pc.n] : t \in waiting} \in SUBSET P!Task
      BY <1>4, <2>1
    <2> HIDE DEF waiting
    <2> QED
      BY <1>1, <2>2 DEF Typed, P!TypeOK
  <1>8. creating' \in [P!People -> SUBSET (P!People \X P!Attempts)]
    BY DEF P!PhoneCreated, Typed, P!TypeOK
  <1> QED
    BY <1>6, <1>7, <1>8 DEF P!PhoneCreated, P!PhoneStays, Typed, P!TypeOK

LEMMA TricklesTyped ==
    ASSUME Typed, NEW p \in P!People, NEW q \in P!People, P!Trickles(p, q)
    PROVE  Typed'
  <1>1. <<[type |-> "ice", to |-> q]>> \in Seq(ToServer)
    BY DEF ToServer
  <1>2. up' \in [P!People -> Seq(ToServer)]
    BY <1>1, SendTyped DEF P!Trickles
  <1> QED
    BY <1>2 DEF P!Trickles, Typed, P!TypeOK

\* One person moves.
Moves(p) ==
    \/ P!Start(p) \/ P!PageEnters(p) \/ P!PageRefused(p)
    \/ \E forAll \in BOOLEAN : P!PageLeaves(p, forAll)
    \/ \E a \in P!Attempts : \/ P!PhoneMedia(p, a) \/ P!PhoneRefused(p, a)
                             \/ P!PhoneAsks(p, a) \/ P!PhoneTimesOut(p, a)
    \/ P!PhoneLeaves(p)
    \/ \E q \in P!People : P!Trickles(p, q)
Listens(p) ==
    \/ P!PageTakesAck(p) \/ P!PageTakesJoined(p) \/ P!PageTakesLeft(p) \/ P!PageTakesEnded(p)
    \/ P!PageTakesSdp(p) \/ P!PageTakesIce(p)
    \/ P!PhoneTakesAck(p) \/ P!PhoneTakesJoined(p) \/ P!PhoneTakesLeft(p)
    \/ P!PhoneTakesEnded(p) \/ P!PhoneTakesSdp(p) \/ P!PhoneTakesIce(p)
Connects(p) ==
    \/ \E t \in task[p] : P!Described(p, t)
    \/ \E q \in P!People, a \in P!Attempts : P!PhoneCreated(p, q, a)

LEMMA StepKinds ==
    P!Next => \E p \in P!People : P!Serve(p) \/ Moves(p) \/ Listens(p) \/ Connects(p)
  BY DEF P!Next, Moves, Listens, Connects

LEMMA TypedStep ==
    ASSUME Typed, PageFlows, Numbers, [P!Next]_(P!vars)
    PROVE  Typed'
  <1>1. CASE UNCHANGED P!vars
    BY <1>1 DEF P!vars, Typed, P!TypeOK, Latest
  <1>2. CASE P!Next
    <2>1. PICK p \in P!People : P!Serve(p) \/ Moves(p) \/ Listens(p) \/ Connects(p)
      BY <1>2, StepKinds
    <2>2. CASE Moves(p)
      BY <2>2, PageTyped, PhoneTyped, TricklesTyped DEF Moves
    <2>3. CASE Listens(p)
      BY <2>3, PageHearsTyped, PageSdpTyped, PhoneHearsTyped, PhoneSdpTyped DEF Listens
    <2>4. CASE Connects(p)
      BY <2>4, DescribedTyped, CreatedTyped DEF Connects
    <2> QED
      BY <2>1, <2>2, <2>3, <2>4, ServeTyped
  <1> QED
    BY <1>1, <1>2

LEMMA PageFlowsStep ==
    ASSUME Typed, PageFlows, [P!Next]_(P!vars)
    PROVE  PageFlows'
  <1>1. CASE UNCHANGED <<flow, tried, phase>>
    BY <1>1 DEF PageFlows
  <1>2. ASSUME NEW p \in Phones,
               \/ P!PhoneLeaves(p) \/ P!PhoneTakesAck(p) \/ P!PhoneTakesEnded(p)
               \/ \E a \in P!Attempts : \/ P!PhoneMedia(p, a) \/ P!PhoneRefused(p, a)
                                        \/ P!PhoneAsks(p, a) \/ P!PhoneTimesOut(p, a)
        PROVE  PageFlows'
    <2>1. \A q \in Pages : q # p
      BY MeshAssumption
    <2>2. \A q \in Pages : flow'[q] = flow[q] /\ tried'[q] = tried[q] /\ phase'[q] = phase[q]
      BY <1>2, <2>1 DEF P!PhoneLeaves, P!PhoneTakesAck, P!PhoneTakesEnded, P!PhoneMedia,
         P!PhoneRefused, P!PhoneAsks, P!PhoneTimesOut, P!Fail, P!Gone, P!Flows, Typed, P!TypeOK,
         P!People
    <2> QED
      BY <2>2 DEF PageFlows
  <1>3. ASSUME NEW p \in P!People, P!Start(p) PROVE PageFlows'
    BY <1>3 DEF P!Start, P!Flows, PageFlows, Typed, P!TypeOK, P!People
  <1>4. ASSUME NEW p \in P!People, P!PageEnters(p) PROVE PageFlows'
    BY <1>4 DEF P!PageEnters, P!Flows, PageFlows, Typed, P!TypeOK, P!People
  <1>5. ASSUME NEW p \in P!People, P!Gone(p), P!Flows(p, tried[p], "none"), UNCHANGED tried
        PROVE  PageFlows'
    BY <1>5 DEF P!Gone, P!Flows, PageFlows, Typed, P!TypeOK, P!People
  <1>6. ASSUME NEW p \in P!People, P!PageTakesAck(p) PROVE PageFlows'
    <2>1. Head(down[p]).n \in P!Attempts
      BY <1>6, TakesTyped DEF P!PageTakesAck
    <2>2. \/ UNCHANGED <<flow, tried, phase>>
          \/ P!Flows(p, Head(down[p]).n, "none") /\ UNCHANGED <<tried, phase>>
          \/ /\ P!Flows(p, Head(down[p]).n, "none") /\ P!Gone(p) /\ UNCHANGED tried
             /\ flow[p][Head(down[p]).n] = "ack"
      BY <1>6 DEF P!PageTakesAck
    <2>3. p \in Pages
      BY <1>6 DEF P!PageTakesAck
    <2>4. flow[p][Head(down[p]).n] = "ack" => Head(down[p]).n = tried[p]
      BY <2>1, <2>3 DEF PageFlows
    <2>5. CASE P!Flows(p, Head(down[p]).n, "none") /\ UNCHANGED <<tried, phase>>
      BY <2>1, <2>3, <2>5 DEF P!Flows, PageFlows, Typed, P!TypeOK, P!People
    <2> QED
      BY <1>1, <1>5, <2>2, <2>4, <2>5
  <1>7. CASE P!Next
    <2>1. PICK p \in P!People : P!Serve(p) \/ Moves(p) \/ Listens(p) \/ Connects(p)
      BY <1>7, StepKinds
    <2>2. CASE P!Serve(p)
      BY <1>1, <2>2 DEF P!Serve
    <2>3. CASE Moves(p)
      BY <1>1, <1>2, <1>3, <1>4, <1>5, <2>3 DEF Moves, P!PageRefused, P!PageLeaves,
         P!PhoneMedia, P!PhoneRefused, P!PhoneAsks, P!PhoneTimesOut, P!PhoneLeaves, P!Trickles
    <2>4. CASE Listens(p)
      BY <1>1, <1>2, <1>5, <1>6, <2>4 DEF Listens, P!PageTakesJoined, P!PageTakesLeft,
         P!PageTakesEnded, P!PageTakesSdp, P!PhoneTakesAck, P!PhoneTakesJoined,
         P!PhoneTakesLeft, P!PhoneTakesEnded, P!PhoneTakesSdp, P!PhoneHears, P!Unmoved,
         P!PageTakesIce, P!PhoneTakesIce, P!PhoneStays
    <2>5. CASE Connects(p)
      BY <1>1, <2>5 DEF Connects, P!Described, P!PhoneCreated, P!PhoneStays
    <2> QED
      BY <2>1, <2>2, <2>3, <2>4, <2>5
  <1> QED
    BY <1>1, <1>7 DEF P!vars
-----------------------------------------------------------------------------
\* What a step of one person leaves to the others ...
Alone(p) ==
    /\ UNCHANGED <<room, door>>
    /\ \A q \in P!People \ {p} :
          /\ phase'[q] = phase[q] /\ tried'[q] = tried[q] /\ flow'[q] = flow[q]
          /\ joined'[q] = joined[q] /\ peer'[q] = peer[q] /\ members'[q] = members[q]
          /\ task'[q] = task[q] /\ up'[q] = up[q] /\ down'[q] = down[q]
          /\ creating'[q] = creating[q] /\ made'[q] = made[q]

\* ... and what it does with what is under way.
Hears(p) ==
    down'[p] = down[p] \/ (down[p] # <<>> /\ down'[p] = Tail(down[p]))

LEMMA TearsAlone ==
    ASSUME Typed, NEW p \in P!People, P!Teardown(p), NEW q \in P!People \ {p}
    PROVE  peer'[q] = peer[q] /\ joined'[q] = joined[q] /\ members'[q] = members[q]
  BY DEF Typed, P!TypeOK, P!Teardown

LEMMA MovesAlone ==
    ASSUME Typed, NEW p \in P!People, Moves(p)
    PROVE  Alone(p)
  <1> USE DEF Alone, P!Flows, P!Gone, P!Still, P!Send
  <1>1. CASE P!Start(p)
    BY <1>1 DEF P!Start, Typed, P!TypeOK
  <1>2. CASE P!PageEnters(p)
    BY <1>2 DEF P!PageEnters, Typed, P!TypeOK
  <1>3. CASE P!PageRefused(p)
    BY <1>3 DEF P!PageRefused, Typed, P!TypeOK
  <1>4. ASSUME NEW forAll \in BOOLEAN, P!PageLeaves(p, forAll) PROVE Alone(p)
    BY <1>4, TearsAlone DEF P!PageLeaves, Typed, P!TypeOK
  <1>5. ASSUME NEW a \in P!Attempts, P!PhoneMedia(p, a) PROVE Alone(p)
    BY <1>5 DEF P!PhoneMedia, Typed, P!TypeOK
  <1>6. ASSUME NEW a \in P!Attempts, P!PhoneRefused(p, a) PROVE Alone(p)
    BY <1>6, TearsAlone DEF P!PhoneRefused, P!Fail, Typed, P!TypeOK
  <1>7. ASSUME NEW a \in P!Attempts, P!PhoneAsks(p, a) PROVE Alone(p)
    BY <1>7 DEF P!PhoneAsks, Typed, P!TypeOK
  <1>8. ASSUME NEW a \in P!Attempts, P!PhoneTimesOut(p, a) PROVE Alone(p)
    BY <1>8, TearsAlone DEF P!PhoneTimesOut, P!Fail, Typed, P!TypeOK
  <1>9. CASE P!PhoneLeaves(p)
    BY <1>9, TearsAlone DEF P!PhoneLeaves, Typed, P!TypeOK
  <1>10. ASSUME NEW q \in P!People, P!Trickles(p, q) PROVE Alone(p)
    BY <1>10 DEF P!Trickles, Typed, P!TypeOK
  <1> QED
    BY <1>1, <1>2, <1>3, <1>4, <1>5, <1>6, <1>7, <1>8, <1>9, <1>10 DEF Moves

LEMMA ListensAlone ==
    ASSUME Typed, NEW p \in P!People, Listens(p)
    PROVE  Alone(p)
  <1> USE DEF Alone, P!Flows, P!Gone, P!Still, P!Unmoved, P!PhoneStays, P!Takes, P!Creates,
              P!Tasks, P!Answered, P!Ensures
  <1>1. CASE P!PageTakesAck(p)
    <2>1. /\ UNCHANGED <<room, door, up, tried, creating>>
          /\ phase' = phase \/ phase' = [phase EXCEPT ![p] = "out"]
          /\ flow' = flow \/ flow' = [flow EXCEPT ![p][Head(down[p]).n] = "none"]
          /\ P!Teardown(p) \/ UNCHANGED <<joined, peer, members>>
             \/ /\ joined' = [joined EXCEPT ![p] = TRUE] /\ UNCHANGED members
                /\ P!Creates(p, Head(down[p]).who)
          /\ UNCHANGED made \/ \E x : made' = [made EXCEPT ![p] = x]
          /\ UNCHANGED task \/ \E ts : P!Tasks(p, ts)
          /\ P!Takes(p, "ack")
      BY <1>1 DEF P!PageTakesAck
    <2>2. \A q \in P!People \ {p} :
              joined'[q] = joined[q] /\ peer'[q] = peer[q] /\ members'[q] = members[q]
      BY <2>1, TearsAlone DEF Typed, P!TypeOK
    <2>3. \A q \in P!People \ {p} :
              task'[q] = task[q] /\ down'[q] = down[q] /\ made'[q] = made[q]
      BY <2>1 DEF Typed, P!TypeOK
    <2>4. \A q \in P!People \ {p} : phase'[q] = phase[q] /\ flow'[q] = flow[q]
      BY <2>1 DEF Typed, P!TypeOK
    <2> QED
      BY <2>1, <2>2, <2>3, <2>4
  <1>2. CASE P!PageTakesJoined(p)
    BY <1>2 DEF P!PageTakesJoined, P!PageHears, Typed, P!TypeOK
  <1>3. CASE P!PageTakesLeft(p)
    BY <1>3 DEF P!PageTakesLeft, P!PageHears, Typed, P!TypeOK
  <1>4. CASE P!PageTakesEnded(p)
    BY <1>4, TearsAlone DEF P!PageTakesEnded, P!PageHears, Typed, P!TypeOK
  <1>5. CASE P!PageTakesSdp(p)
    BY <1>5 DEF P!PageTakesSdp, P!PageHears, Typed, P!TypeOK
  <1>6. CASE P!PhoneTakesAck(p)
    <2>1. /\ UNCHANGED <<room, door, up, tried, made>>
          /\ phase' = phase \/ (\E x : phase' = [phase EXCEPT ![p] = x])
          /\ \E x : flow' = [flow EXCEPT ![p] = x]
          /\ \/ P!Teardown(p)
             \/ /\ UNCHANGED <<joined, peer>>
                /\ members' = members \/ (\E x : members' = [members EXCEPT ![p] = x])
          /\ UNCHANGED task \/ \E ts : P!Tasks(p, ts)
          /\ UNCHANGED creating \/ P!Ensures(p, Head(down[p]).who)
          /\ P!Takes(p, "ack")
      BY <1>6 DEF P!PhoneTakesAck, P!Fail, Typed, P!TypeOK
    <2>2. \A q \in P!People \ {p} :
              joined'[q] = joined[q] /\ peer'[q] = peer[q] /\ members'[q] = members[q]
      BY <2>1, TearsAlone DEF Typed, P!TypeOK
    <2>3. \A q \in P!People \ {p} :
              task'[q] = task[q] /\ down'[q] = down[q] /\ creating'[q] = creating[q]
      BY <2>1 DEF Typed, P!TypeOK
    <2>4. \A q \in P!People \ {p} : phase'[q] = phase[q] /\ flow'[q] = flow[q]
      BY <2>1 DEF Typed, P!TypeOK
    <2> QED
      BY <2>1, <2>2, <2>3, <2>4
  <1>7. CASE P!PhoneTakesJoined(p)
    BY <1>7 DEF P!PhoneTakesJoined, P!PhoneHears, Typed, P!TypeOK
  <1>8. CASE P!PhoneTakesLeft(p)
    BY <1>8 DEF P!PhoneTakesLeft, P!PhoneHears, Typed, P!TypeOK
  <1>9. CASE P!PhoneTakesEnded(p)
    BY <1>9, TearsAlone DEF P!PhoneTakesEnded, P!PhoneHears, P!Fail, Typed, P!TypeOK
  <1>10. CASE P!PhoneTakesSdp(p)
    BY <1>10 DEF P!PhoneTakesSdp, P!PhoneHears, Typed, P!TypeOK
  <1>11. CASE P!PageTakesIce(p) \/ P!PhoneTakesIce(p)
    BY <1>11 DEF P!PageTakesIce, P!PageHears, P!PhoneTakesIce, P!PhoneHears, Typed, P!TypeOK
  <1> QED
    BY <1>1, <1>2, <1>3, <1>4, <1>5, <1>6, <1>7, <1>8, <1>9, <1>10, <1>11 DEF Listens

LEMMA ConnectsAlone ==
    ASSUME Typed, NEW p \in P!People, Connects(p)
    PROVE  Alone(p)
  <1> USE DEF Alone, P!PhoneStays, P!Send
  <1>1. ASSUME NEW t \in task[p], P!Described(p, t) PROVE Alone(p)
    BY <1>1 DEF P!Described, Typed, P!TypeOK
  <1>2. ASSUME NEW q \in P!People, NEW a \in P!Attempts, P!PhoneCreated(p, q, a) PROVE Alone(p)
    BY <1>2 DEF P!PhoneCreated, Typed, P!TypeOK
  <1> QED
    BY <1>1, <1>2 DEF Connects
-----------------------------------------------------------------------------
LEMMA TailFacts ==
    ASSUME NEW S, NEW s \in Seq(S), s # <<>>
    PROVE  /\ Len(s) \in Nat /\ Len(Tail(s)) = Len(s) - 1 /\ Len(Tail(s)) \in Nat
           /\ 1 \in 1..Len(s) /\ Head(s) = s[1]
           /\ \A i \in 1..Len(Tail(s)) : i + 1 \in 1..Len(s) /\ Tail(s)[i] = s[i + 1]
           /\ \A i \in 1..Len(s) : i # 1 => i - 1 \in 1..Len(Tail(s)) /\ s[i] = Tail(s)[i - 1]
  OBVIOUS

\* What the gateway may have to say when it serves p.
Fits(p, q, m) ==
    LET h == up[p][1] IN
    \/ m.type = "ended"
    \/ m.type = "left" /\ h.type = "leave" /\ m.who = p /\ p \in room /\ q \in room
    \/ m.type = "joined" /\ h.type = "join" /\ m.who = p /\ q # p /\ q \in room
    \/ m.type = "ack" /\ h.type = "join" /\ q = p /\ m.who = room \ {p}
    \/ /\ m.type = "sdp" /\ h.type = "sdp" /\ m.who = p /\ q = h.to /\ q \in room
       /\ m.op = h.op /\ m.n = h.n
    \/ m.type = "ice" /\ h.type = "ice" /\ m.who = p /\ q = h.to /\ q \in room

Frame(p) ==
    /\ up[p] # <<>> /\ up' = [up EXCEPT ![p] = Tail(@)]
    /\ UNCHANGED <<phase, tried, flow, joined, local, running, peer, made, creating, task, members>>
Told(p) == \A q \in P!People :
    down'[q] = down[q] \/ \E m \in FromServer : down'[q] = Append(down[q], m) /\ Fits(p, q, m)
Served(p) == Frame(p) /\ Told(p)

LEMMA UpFacts ==
    ASSUME Typed, NEW p \in P!People, Frame(p)
    PROVE  /\ Len(up[p]) \in Nat /\ Len(up'[p]) = Len(up[p]) - 1 /\ 1 \in 1..Len(up[p])
           /\ up[p][1] \in ToServer /\ Head(up[p]) = up[p][1]
           /\ \A i \in 1..Len(up'[p]) : i + 1 \in 1..Len(up[p]) /\ up'[p][i] = up[p][i + 1]
           /\ \A q \in P!People \ {p} : up'[q] = up[q]
           /\ \A q \in P!People : \A i \in 1..Len(up'[q]) :
                 \E j \in 1..Len(up[q]) : up'[q][i] = up[q][j]
  <1>1. up[p] \in Seq(ToServer) /\ up[p] # <<>> /\ up'[p] = Tail(up[p])
    BY DEF Typed, Frame
  <1>2. /\ Len(up[p]) \in Nat /\ Len(up'[p]) = Len(up[p]) - 1 /\ 1 \in 1..Len(up[p])
        /\ up[p][1] \in ToServer /\ Head(up[p]) = up[p][1]
        /\ \A i \in 1..Len(up'[p]) : i + 1 \in 1..Len(up[p]) /\ up'[p][i] = up[p][i + 1]
    BY <1>1, TailFacts
  <1>3. \A q \in P!People \ {p} : up'[q] = up[q]
    BY DEF Typed, Frame
  <1> QED
    BY <1>2, <1>3

\* What there was to hear is followed by one message at most.
LEMMA MailFacts ==
    ASSUME Typed, NEW p \in P!People, Told(p), NEW q \in P!People
    PROVE  /\ Len(down[q]) \in Nat /\ Len(down'[q]) \in Nat
           /\ Len(down'[q]) \in {Len(down[q]), Len(down[q]) + 1}
           /\ \A i \in 1..Len(down[q]) : i \in 1..Len(down'[q]) /\ down'[q][i] = down[q][i]
           /\ \A i \in 1..Len(down'[q]) :
                 \/ i \in 1..Len(down[q]) /\ down'[q][i] = down[q][i]
                 \/ i = Len(down[q]) + 1 /\ Fits(p, q, down'[q][i])
  <1>1. down[q] \in Seq(FromServer)
    BY DEF Typed
  <1>2. CASE down'[q] = down[q]
    BY <1>1, <1>2
  <1>3. ASSUME NEW m \in FromServer, down'[q] = Append(down[q], m), Fits(p, q, m)
        PROVE  /\ Len(down[q]) \in Nat /\ Len(down'[q]) = Len(down[q]) + 1
               /\ \A i \in 1..Len(down[q]) : i \in 1..Len(down'[q]) /\ down'[q][i] = down[q][i]
               /\ \A i \in 1..Len(down'[q]) :
                     \/ i \in 1..Len(down[q]) /\ down'[q][i] = down[q][i]
                     \/ i = Len(down[q]) + 1 /\ Fits(p, q, down'[q][i])
    <2>1. /\ Len(down[q]) \in Nat /\ Len(down'[q]) = Len(down[q]) + 1
          /\ \A i \in 1..Len(down[q]) : down'[q][i] = down[q][i]
          /\ down'[q][Len(down[q]) + 1] = m
      BY <1>1, <1>3
    <2> QED
      BY <1>3, <2>1
  <1> QED
    BY <1>2, <1>3 DEF Told

LEMMA ServeTells ==
    ASSUME Typed, NEW p \in P!People, P!Serve(p)
    PROVE  Served(p)
  <1>1. Frame(p)
    BY DEF P!Serve, Frame
  <1> DEFINE h == up[p][1]
  <1>2. Head(up[p]) = h /\ h \in ToServer
    BY <1>1, UpFacts
  <1>3. room \subseteq P!People
    BY DEF Typed, P!TypeOK
  <1> SUFFICES ASSUME NEW q \in P!People
               PROVE  down'[q] = down[q] \/ \E m \in FromServer :
                          down'[q] = Append(down[q], m) /\ Fits(p, q, m)
    BY <1>1 DEF Served, Told
  <1>4. CASE h.type = "join" /\ P!Join(p, h)
    <2> DEFINE ack == [type |-> "ack", n |-> h.n, ok |-> (p \in Pages \/ door), who |-> room \ {p}]
               new == [type |-> "joined", who |-> p]
    <2>1. ack \in FromServer /\ new \in FromServer
      BY <1>2, <1>3, <1>4 DEF FromServer, ToServer, Typed, P!TypeOK
    <2>2. \/ q = p /\ down'[q] = Append(down[q], ack)
          \/ q # p /\ q \in room /\ down'[q] = Append(down[q], new)
          \/ down'[q] = down[q]
      BY <1>4 DEF P!Join
    <2>3. Fits(p, p, ack) /\ (q # p /\ q \in room => Fits(p, q, new))
      BY <1>4 DEF Fits
    <2> QED
      BY <2>1, <2>2, <2>3
  <1>5. CASE h.type = "leave" /\ P!Leave(p)
    <2> DEFINE end == [type |-> "ended"]
               left == [type |-> "left", who |-> p]
    <2>1. end \in FromServer /\ left \in FromServer
      BY DEF FromServer
    <2>2. \/ down'[q] = Append(down[q], end)
          \/ p \in room /\ q \in room /\ down'[q] = Append(down[q], left)
          \/ down'[q] = down[q]
      BY <1>5 DEF P!Leave, P!Tell
    <2>3. Fits(p, q, end) /\ (p \in room /\ q \in room => Fits(p, q, left))
      BY <1>5 DEF Fits
    <2> QED
      BY <2>1, <2>2, <2>3
  <1>6. CASE h.type = "end" /\ P!End
    <2> DEFINE end == [type |-> "ended"]
    <2>1. end \in FromServer /\ Fits(p, q, end)
      BY DEF FromServer, Fits
    <2>2. down'[q] = Append(down[q], end) \/ down'[q] = down[q]
      BY <1>6 DEF P!End, P!Tell
    <2> QED
      BY <2>1, <2>2
  <1>7. CASE h.type = "sdp" /\ P!Relay(p, h)
    <2> DEFINE sdp == [type |-> "sdp", who |-> p, op |-> h.op, n |-> h.n]
    <2>1. sdp \in FromServer
      BY <1>2, <1>7 DEF FromServer, ToServer
    <2>2. \/ q = h.to /\ q \in room /\ down'[q] = Append(down[q], sdp)
          \/ down'[q] = down[q]
      BY <1>7 DEF P!Relay, P!Tell
    <2>3. q = h.to /\ q \in room => Fits(p, q, sdp)
      BY <1>7 DEF Fits
    <2> QED
      BY <2>1, <2>2, <2>3
  <1>8. CASE h.type = "ice" /\ P!RelayIce(p, h)
    <2> DEFINE ice == [type |-> "ice", who |-> p]
    <2>1. ice \in FromServer
      BY DEF FromServer
    <2>2. \/ q = h.to /\ q \in room /\ down'[q] = Append(down[q], ice)
          \/ down'[q] = down[q]
      BY <1>8 DEF P!RelayIce, P!Tell
    <2>3. q = h.to /\ q \in room => Fits(p, q, ice)
      BY <1>8 DEF Fits
    <2> QED
      BY <2>1, <2>2, <2>3
  <1> QED
    BY <1>2, <1>4, <1>5, <1>6, <1>7, <1>8 DEF P!Serve

LEMMA ServedNumbers ==
    ASSUME Typed, Numbers, NEW p \in P!People, Served(p)
    PROVE  Numbers'
  <1>2. /\ 1 \in 1..Len(up[p])
        /\ \A x \in P!People : \A i \in 1..Len(up'[x]) : \E j \in 1..Len(up[x]) : up'[x][i] = up[x][j]
        /\ made' = made /\ task' = task
    BY UpFacts DEF Served, Frame
  <1>3. ASSUME NEW x \in P!People, NEW i \in 1..Len(up'[x]), up'[x][i].type = "sdp"
        PROVE  up'[x][i].n <= made'[x][up'[x][i].to]
    <2>1. PICK j \in 1..Len(up[x]) : up'[x][i] = up[x][j]
      BY <1>2
    <2>2. up[x][j].n <= made[x][up[x][j].to]
      BY <1>3, <2>1 DEF Numbers
    <2> QED
      BY <1>2, <2>1, <2>2
  <1>4. ASSUME NEW x \in P!People, NEW i \in 1..Len(down'[x]), down'[x][i].type = "sdp"
        PROVE  down'[x][i].n <= made'[down'[x][i].who][x]
    <2>1. CASE i \in 1..Len(down[x]) /\ down'[x][i] = down[x][i]
      BY <1>2, <1>4, <2>1 DEF Numbers
    <2>2. CASE Fits(p, x, down'[x][i])
      <3>1. /\ up[p][1].type = "sdp" /\ down'[x][i].who = p /\ x = up[p][1].to
            /\ down'[x][i].n = up[p][1].n
        BY <1>4, <2>2 DEF Fits
      <3> QED
        BY <1>2, <3>1 DEF Numbers
    <2> QED
      BY <2>1, <2>2, MailFacts DEF Served
  <1>5. ASSUME NEW x \in P!People, NEW t \in task'[x], t.op = "answer"
        PROVE  t.of <= made'[t.who][x]
    BY <1>2, <1>5 DEF Numbers
  <1> QED
    BY <1>3, <1>4, <1>5 DEF Numbers

LEMMA SaysFew ==
    ASSUME Typed, NEW p \in P!People, NEW ms \in Seq(ToServer), P!Send(p, ms)
    PROVE  /\ Len(up[p]) \in Nat /\ Len(ms) \in Nat /\ Len(up'[p]) = Len(up[p]) + Len(ms)
           /\ \A i \in 1..Len(up[p]) : up'[p][i] = up[p][i]
           /\ \A i \in 1..Len(up'[p]) : i > Len(up[p]) =>
                 i - Len(up[p]) \in 1..Len(ms) /\ up'[p][i] = ms[i - Len(up[p])]
  <1>1. up'[p] = up[p] \o ms /\ up[p] \in Seq(ToServer)
    BY DEF Typed, P!Send
  <1> QED
    BY <1>1

LEMMA SaysOne ==
    ASSUME Typed, NEW p \in P!People, NEW ms \in Seq(ToServer), P!Send(p, ms), Len(ms) = 1
    PROVE  /\ Len(up[p]) \in Nat /\ Len(up'[p]) = Len(up[p]) + 1
           /\ \A i \in 1..Len(up[p]) : up'[p][i] = up[p][i]
           /\ \A i \in 1..Len(up'[p]) : i > Len(up[p]) => up'[p][i] = ms[1]
  <1>1. /\ Len(up[p]) \in Nat /\ Len(up'[p]) = Len(up[p]) + 1
        /\ \A i \in 1..Len(up[p]) : up'[p][i] = up[p][i]
    BY SaysFew
  <1>2. ASSUME NEW i \in 1..Len(up'[p]), i > Len(up[p]) PROVE up'[p][i] = ms[1]
    <2>1. i - Len(up[p]) \in 1..1 /\ up'[p][i] = ms[i - Len(up[p])]
      BY <1>2, SaysFew
    <2>2. i - Len(up[p]) = 1
      BY <2>1
    <2> QED
      BY <2>1, <2>2
  <1> QED
    BY <1>1, <1>2


\* What a person's step does to the numbers that are under way: they are repeated, or
\* are of a connection of one's own.
Counts(p) ==
    /\ \A x \in P!People \ {p} : up'[x] = up[x] /\ down'[x] = down[x] /\ task'[x] = task[x]
    /\ \A x, y \in P!People : made[x][y] <= made'[x][y]
    /\ \A i \in 1..Len(up'[p]) : up'[p][i].type = "sdp" =>
          \/ i \in 1..Len(up[p]) /\ up'[p][i] = up[p][i]
          \/ up'[p][i].n <= made[p][up'[p][i].to]
    /\ \A i \in 1..Len(down'[p]) : \E j \in 1..Len(down[p]) : down'[p][i] = down[p][j]
    /\ \A t \in task'[p] : t.op = "answer" =>
          \/ \E u \in task[p] : u.op = "answer" /\ u.who = t.who /\ u.of = t.of
          \/ \E j \in 1..Len(down[p]) :
                down[p][j].type = "sdp" /\ down[p][j].who = t.who /\ down[p][j].n = t.of

LEMMA CountsKeep ==
    ASSUME Typed, Typed', Numbers, NEW p \in P!People, Counts(p)
    PROVE  Numbers'
  <1>1. \A x, y \in P!People : made[x][y] \in Nat /\ made'[x][y] \in Nat /\ made[x][y] <= made'[x][y]
    BY DEF Typed, P!TypeOK, Counts
  <1>2. ASSUME NEW x \in P!People, x # p
        PROVE  /\ up'[x] = up[x] /\ down'[x] = down[x] /\ task'[x] = task[x]
    BY <1>2 DEF Counts
  <1>3. ASSUME NEW x \in P!People, NEW i \in 1..Len(up'[x]), up'[x][i].type = "sdp"
        PROVE  up'[x][i].n <= made'[x][up'[x][i].to]
    <2>1. up'[x][i] \in ToServer
      BY DEF Typed
    <2>2. up'[x][i].to \in P!People /\ up'[x][i].n \in Nat
      BY <1>3, <2>1 DEF ToServer
    <2>3. up'[x][i].n <= made[x][up'[x][i].to]
      BY <1>2, <1>3 DEF Counts, Numbers
    <2> QED
      BY <1>1, <2>2, <2>3
  <1>4. ASSUME NEW x \in P!People, NEW i \in 1..Len(down'[x]), down'[x][i].type = "sdp"
        PROVE  down'[x][i].n <= made'[down'[x][i].who][x]
    <2>1. PICK j \in 1..Len(down[x]) : down'[x][i] = down[x][j]
      BY <1>2 DEF Counts
    <2>2. down[x][j] \in FromServer
      BY DEF Typed
    <2>3. down[x][j].who \in P!People /\ down[x][j].n \in Nat
      BY <1>4, <2>1, <2>2 DEF FromServer
    <2>4. down[x][j].n <= made[down[x][j].who][x]
      BY <1>4, <2>1 DEF Numbers
    <2> QED
      BY <1>1, <2>1, <2>3, <2>4
  <1>5. ASSUME NEW x \in P!People, NEW t \in task'[x], t.op = "answer"
        PROVE  t.of <= made'[t.who][x]
    <2>1. t \in P!Task
      BY DEF Typed, P!TypeOK
    <2>2. t.who \in P!People /\ t.of \in Nat
      BY <2>1 DEF P!Task
    <2>3. t.of <= made[t.who][x]
      <3>1. CASE x # p
        BY <1>2, <1>5, <3>1 DEF Numbers
      <3>2. CASE x = p
        BY <1>5, <3>2 DEF Counts, Numbers
      <3> QED
        BY <3>1, <3>2
    <2> QED
      BY <1>1, <2>2, <2>3
  <1> QED
    BY <1>3, <1>4, <1>5 DEF Numbers

LEMMA MadeStays ==
    ASSUME Typed, made' = made
    PROVE  \A x, y \in P!People : made[x][y] <= made'[x][y]
  BY DEF Typed, P!TypeOK

LEMMA MovesCount ==
    ASSUME Typed, NEW p \in P!People, Moves(p)
    PROVE  Counts(p)
  <1>1. made' = made /\ down' = down /\ task' = task
    BY DEF Moves, P!Start, P!PageEnters, P!PageRefused, P!PageLeaves, P!PhoneMedia,
       P!PhoneRefused, P!PhoneAsks, P!PhoneTimesOut, P!PhoneLeaves, P!Trickles, P!Still
  <1>2. \A i \in 1..Len(down[p]) : \E j \in 1..Len(down[p]) : down[p][i] = down[p][j]
    OBVIOUS
  <1>3. Alone(p)
    BY MovesAlone
  <1>4. ASSUME NEW ms \in Seq(ToServer), \A i \in 1..Len(ms) : ms[i].type # "sdp", P!Send(p, ms)
        PROVE  \A i \in 1..Len(up'[p]) : up'[p][i].type = "sdp" =>
                   i \in 1..Len(up[p]) /\ up'[p][i] = up[p][i]
    <2>1. /\ Len(up[p]) \in Nat /\ Len(up'[p]) \in Nat
          /\ \A i \in 1..Len(up[p]) : up'[p][i] = up[p][i]
          /\ \A i \in 1..Len(up'[p]) : i > Len(up[p]) =>
                i - Len(up[p]) \in 1..Len(ms) /\ up'[p][i] = ms[i - Len(up[p])]
      BY <1>4, SaysFew
    <2> QED
      BY <1>4, <2>1
  <1>5. ASSUME up' = up
        PROVE  \A i \in 1..Len(up'[p]) : up'[p][i].type = "sdp" =>
                   i \in 1..Len(up[p]) /\ up'[p][i] = up[p][i]
    BY <1>5
  <1>6. \/ up' = up
        \/ \E ms \in Seq(ToServer) : P!Send(p, ms) /\ \A i \in 1..Len(ms) : ms[i].type # "sdp"
    <2>1. CASE P!PageEnters(p)
      <3>1. tried[p] \in P!Attempts
        BY <2>1 DEF P!PageEnters, Typed, P!TypeOK, P!Attempts
      <3>2. <<[type |-> "join", n |-> tried[p]]>> \in Seq(ToServer)
        BY <3>1 DEF ToServer
      <3>3. \A i \in 1..Len(<<[type |-> "join", n |-> tried[p]]>>) : <<[type |-> "join", n |-> tried[p]]>>[i].type # "sdp"
        OBVIOUS
      <3>4. P!Send(p, <<[type |-> "join", n |-> tried[p]]>>)
        BY <2>1 DEF P!PageEnters
      <3> QED
        BY <3>2, <3>3, <3>4
    <2>2. ASSUME NEW forAll \in BOOLEAN, P!PageLeaves(p, forAll)
          PROVE  \E ms \in Seq(ToServer) :
                     P!Send(p, ms) /\ \A i \in 1..Len(ms) : ms[i].type # "sdp"
      <3> DEFINE ms == (IF forAll THEN <<[type |-> "end"]>> ELSE <<>>)
                       \o (IF joined[p] THEN <<[type |-> "leave"]>> ELSE <<>>)
      <3>1. /\ <<[type |-> "end"]>> \in Seq(ToServer) /\ <<[type |-> "leave"]>> \in Seq(ToServer)
            /\ <<>> \in Seq(ToServer)
        BY DEF ToServer
      <3>2. ms \in Seq(ToServer) /\ \A i \in 1..Len(ms) : ms[i].type # "sdp"
        BY <3>1
      <3>3. P!Send(p, ms)
        BY <2>2 DEF P!PageLeaves
      <3> HIDE DEF ms
      <3> QED
        BY <3>2, <3>3
    <2>3. ASSUME NEW a \in P!Attempts, P!PhoneAsks(p, a)
          PROVE  \E ms \in Seq(ToServer) :
                     P!Send(p, ms) /\ \A i \in 1..Len(ms) : ms[i].type # "sdp"
      <3>1. <<[type |-> "join", n |-> a]>> \in Seq(ToServer)
        BY DEF ToServer
      <3>2. \A i \in 1..Len(<<[type |-> "join", n |-> a]>>) : <<[type |-> "join", n |-> a]>>[i].type # "sdp"
        OBVIOUS
      <3>3. P!Send(p, <<[type |-> "join", n |-> a]>>)
        BY <2>3 DEF P!PhoneAsks
      <3> QED
        BY <3>1, <3>2, <3>3
    <2>4. CASE P!PhoneLeaves(p)
      <3>1. <<[type |-> "leave"]>> \in Seq(ToServer)
        BY DEF ToServer
      <3>2. \A i \in 1..Len(<<[type |-> "leave"]>>) : <<[type |-> "leave"]>>[i].type # "sdp"
        OBVIOUS
      <3>3. P!Send(p, <<[type |-> "leave"]>>)
        BY <2>4 DEF P!PhoneLeaves
      <3> QED
        BY <3>1, <3>2, <3>3
    <2>5. ASSUME NEW q \in P!People, P!Trickles(p, q)
          PROVE  \E ms \in Seq(ToServer) :
                     P!Send(p, ms) /\ \A i \in 1..Len(ms) : ms[i].type # "sdp"
      <3>1. <<[type |-> "ice", to |-> q]>> \in Seq(ToServer)
        BY DEF ToServer
      <3>2. \A i \in 1..Len(<<[type |-> "ice", to |-> q]>>) : <<[type |-> "ice", to |-> q]>>[i].type # "sdp"
        OBVIOUS
      <3>3. P!Send(p, <<[type |-> "ice", to |-> q]>>)
        BY <2>5 DEF P!Trickles
      <3> QED
        BY <3>1, <3>2, <3>3
    <2>6. CASE \/ P!Start(p) \/ P!PageRefused(p)
               \/ \E a \in P!Attempts :
                     P!PhoneMedia(p, a) \/ P!PhoneRefused(p, a) \/ P!PhoneTimesOut(p, a)
      BY <2>6 DEF P!Start, P!PageRefused, P!PhoneMedia, P!PhoneRefused, P!PhoneTimesOut
    <2> QED
      BY <2>1, <2>2, <2>3, <2>4, <2>5, <2>6 DEF Moves
  <1>7. \A i \in 1..Len(up'[p]) : up'[p][i].type = "sdp" =>
            i \in 1..Len(up[p]) /\ up'[p][i] = up[p][i]
    BY <1>4, <1>5, <1>6
  <1> QED
    BY <1>1, <1>2, <1>3, <1>7, MadeStays DEF Counts, Alone

LEMMA ListensMakes ==
    ASSUME Typed, NEW p \in P!People, Listens(p)
    PROVE  \A x, y \in P!People : made[x][y] <= made'[x][y]
  <1> DEFINE m == Head(down[p])
  <1>1. CASE P!PageTakesAck(p)
    <2>1. m.who \in SUBSET P!People
      BY <1>1, TakesTyped DEF P!PageTakesAck
    <2>2. made' = made \/ P!Creates(p, m.who)
      BY <1>1 DEF P!PageTakesAck
    <2> QED
      BY <2>1, <2>2, MadeStays, CreatesTyped
  <1>2. CASE P!PageTakesJoined(p) \/ P!PageTakesIce(p)
    <2> DEFINE who == IF phase[p] = "out" THEN {} ELSE {m.who}
    <2>1. m.who \in P!People
      BY <1>2, TakesTyped DEF P!PageTakesJoined, P!PageTakesIce, P!PageHears
    <2>2. who \in SUBSET P!People /\ P!Creates(p, who)
      BY <1>2, <2>1 DEF P!PageTakesJoined, P!PageTakesIce
    <2> QED
      BY <2>2, CreatesTyped
  <1>3. CASE P!PageTakesSdp(p)
    <2>1. m.who \in P!People
      BY <1>3, TakesTyped DEF P!PageTakesSdp, P!PageHears
    <2>2. \/ made' = made
          \/ made' = [made EXCEPT ![p][m.who] =
                         IF peer[p][m.who] = P!NoPeer THEN P!Fresh(p, m.who).n ELSE peer[p][m.who].n]
      BY <1>3 DEF P!PageTakesSdp, P!Answered
    <2>3. /\ made[p][m.who] \in Nat /\ Latest(peer[p][m.who], made[p][m.who])
          /\ P!Fresh(p, m.who).n = made[p][m.who] + 1
      BY <2>1, PeerFacts DEF P!Fresh
    <2>4. made[p][m.who] <= IF peer[p][m.who] = P!NoPeer THEN P!Fresh(p, m.who).n
                            ELSE peer[p][m.who].n
      BY <2>3 DEF Latest
    <2>5. CASE made' = [made EXCEPT ![p][m.who] =
                           IF peer[p][m.who] = P!NoPeer THEN P!Fresh(p, m.who).n
                           ELSE peer[p][m.who].n]
      <3>1. made \in [P!People -> [P!People -> Nat]]
        BY DEF Typed, P!TypeOK
      <3> DEFINE n == IF peer[p][m.who] = P!NoPeer THEN P!Fresh(p, m.who).n ELSE peer[p][m.who].n
      <3>2. made[p][m.who] <= n /\ made' = [made EXCEPT ![p][m.who] = n]
        BY <2>4, <2>5
      <3> HIDE DEF n
      <3>3. \A x, y \in P!People :
                made'[x][y] = IF x = p /\ y = m.who THEN n ELSE made[x][y]
        BY <2>1, <3>1, <3>2
      <3>4. \A x, y \in P!People : made[x][y] \in Nat
        BY <3>1
      <3> QED
        BY <3>2, <3>3, <3>4
    <2> QED
      BY <2>2, <2>5, MadeStays
  <1>4. CASE \/ P!PageTakesLeft(p) \/ P!PageTakesEnded(p) \/ P!PhoneTakesAck(p)
             \/ P!PhoneTakesJoined(p) \/ P!PhoneTakesLeft(p) \/ P!PhoneTakesEnded(p)
             \/ P!PhoneTakesSdp(p) \/ P!PhoneTakesIce(p)
    <2>1. made' = made
      BY <1>4 DEF P!PageTakesLeft, P!PageTakesEnded, P!PhoneTakesAck, P!PhoneTakesJoined,
         P!PhoneTakesLeft, P!PhoneTakesEnded, P!PhoneTakesSdp, P!PhoneTakesIce, P!Still
    <2> QED
      BY <2>1, MadeStays
  <1> QED
    BY <1>1, <1>2, <1>3, <1>4 DEF Listens

LEMMA ListensCount ==
    ASSUME Typed, NEW p \in P!People, Listens(p)
    PROVE  Counts(p)
  <1> DEFINE m == Head(down[p])
  <1>1. up' = up /\ \E type : P!Takes(p, type)
    BY DEF Listens, P!PageTakesAck, P!PageTakesJoined, P!PageTakesLeft, P!PageTakesEnded,
       P!PageTakesSdp, P!PhoneTakesAck, P!PhoneTakesJoined, P!PhoneTakesLeft,
       P!PhoneTakesEnded, P!PhoneTakesSdp, P!PageTakesIce, P!PhoneTakesIce, P!PageHears,
       P!PhoneHears, P!Unmoved, P!PhoneStays
  <1>2. /\ down[p] \in Seq(FromServer) /\ down[p] # <<>> /\ down'[p] = Tail(down[p])
    BY <1>1 DEF P!Takes, Typed
  <1>3. /\ \A i \in 1..Len(down'[p]) : \E j \in 1..Len(down[p]) : down'[p][i] = down[p][j]
        /\ 1 \in 1..Len(down[p]) /\ m = down[p][1]
    BY <1>2, TailFacts
  <1>4. \/ task' = task
        \/ \E ts : P!Tasks(p, ts) /\ \A t \in ts : t.op # "answer"
        \/ /\ m.type = "sdp"
           /\ \E ts : P!Tasks(p, ts) /\ \A t \in ts : t.who = m.who /\ t.of = m.n
    <2>1. CASE P!PageTakesAck(p)
      BY <2>1 DEF P!PageTakesAck, P!Offers, P!Offer
    <2>2. CASE P!PhoneTakesAck(p)
      BY <2>2 DEF P!PhoneTakesAck, P!Offers, P!Offer
    <2>3. CASE P!PageTakesSdp(p)
      BY <2>3 DEF P!PageTakesSdp, P!PageHears, P!Takes, P!Answered, P!Answer
    <2>4. CASE P!PhoneTakesSdp(p)
      <3> DEFINE all == {P!Answer(q, 0, m.n) : q \in P!Ensured(p, {m.who})}
      <3>1. \A t \in all : t.who = m.who /\ t.of = m.n
        BY DEF P!Ensured, P!Answer
      <3>2. m.type = "sdp"
        BY <2>4 DEF P!PhoneTakesSdp, P!PhoneHears, P!Takes
      <3>3. \/ task' = task \/ P!Tasks(p, all)
            \/ \E n : P!Tasks(p, {P!Answer(m.who, n, m.n)})
        BY <2>4 DEF P!PhoneTakesSdp, P!Answered
      <3>4. \A n : P!Answer(m.who, n, m.n).who = m.who /\ P!Answer(m.who, n, m.n).of = m.n
        BY DEF P!Answer
      <3> HIDE DEF all
      <3>5. CASE P!Tasks(p, all)
        BY <3>1, <3>2, <3>5
      <3>6. ASSUME NEW n, P!Tasks(p, {P!Answer(m.who, n, m.n)})
            PROVE  \E ts : P!Tasks(p, ts) /\ \A t \in ts : t.who = m.who /\ t.of = m.n
        BY <3>4, <3>6
      <3> QED
        BY <3>2, <3>3, <3>5, <3>6
    <2>5. CASE \/ P!PageTakesJoined(p) \/ P!PageTakesLeft(p) \/ P!PageTakesEnded(p)
               \/ P!PhoneTakesJoined(p) \/ P!PhoneTakesLeft(p) \/ P!PhoneTakesEnded(p)
               \/ P!PageTakesIce(p) \/ P!PhoneTakesIce(p)
      BY <2>5 DEF P!PageTakesJoined, P!PageTakesLeft, P!PageTakesEnded, P!PhoneTakesJoined,
         P!PhoneTakesLeft, P!PhoneTakesEnded, P!PageTakesIce, P!PhoneTakesIce, P!Still
    <2> QED
      BY <2>1, <2>2, <2>3, <2>4, <2>5 DEF Listens
  <1>5. \A ts : P!Tasks(p, ts) => task'[p] = task[p] \cup ts
    BY DEF P!Tasks, Typed, P!TypeOK
  <1>6. \A t \in task'[p] : t.op = "answer" =>
            \/ \E u \in task[p] : u.op = "answer" /\ u.who = t.who /\ u.of = t.of
            \/ m.type = "sdp" /\ t.who = m.who /\ t.of = m.n
    BY <1>4, <1>5
  <1>7. Alone(p)
    BY ListensAlone
  <1> QED
    BY <1>1, <1>3, <1>6, <1>7, ListensMakes DEF Counts, Alone

LEMMA CreatedTasks ==
    ASSUME Typed, NEW p \in P!People, NEW q \in P!People, NEW a \in P!Attempts,
           P!PhoneCreated(p, q, a)
    PROVE  \A t \in task'[p] : \E u \in task[p] : u.op = t.op /\ u.who = t.who /\ u.of = t.of
  <1> DEFINE waiting == {t \in task[p] : t.who = q /\ t.n = 0}
             n == [P!Fresh(p, q) EXCEPT !.src = a].n
  <1>1. task[p] \in SUBSET P!Task
    BY DEF Typed, P!TypeOK
  <1>2. task'[p] = (task[p] \ waiting) \cup {[t EXCEPT !.n = n] : t \in waiting}
    BY DEF P!PhoneCreated, Typed, P!TypeOK
  <1> HIDE DEF n
  <1>3. \A t \in task[p] : /\ [t EXCEPT !.n = n].op = t.op /\ [t EXCEPT !.n = n].who = t.who
                           /\ [t EXCEPT !.n = n].of = t.of
    BY <1>1 DEF P!Task
  <1> QED
    BY <1>2, <1>3

LEMMA ConnectsCount ==
    ASSUME Typed, Numbers, NEW p \in P!People, Connects(p)
    PROVE  Counts(p)
  <1>1. Alone(p)
    BY ConnectsAlone
  <1>2. down' = down
    BY DEF Connects, P!Described, P!PhoneCreated
  <1>3. ASSUME NEW t \in task[p], P!Described(p, t) PROVE Counts(p)
    <2>1. t \in P!Task /\ t.who \in P!People
      BY DEF Typed, P!TypeOK, P!Task
    <2> DEFINE m == [type |-> "sdp", to |-> t.who, op |-> t.op, n |-> t.n]
    <2>2. m \in ToServer /\ m.n = t.n /\ m.to = t.who
      BY <2>1 DEF ToServer, P!Task
    <2>3. up' = up \/ (peer[p][t.who].n = t.n /\ P!Send(p, <<m>>))
      BY <1>3 DEF P!Described
    <2> HIDE DEF m
    <2>4. ASSUME peer[p][t.who].n = t.n, P!Send(p, <<m>>)
          PROVE  \A i \in 1..Len(up'[p]) : \/ i \in 1..Len(up[p]) /\ up'[p][i] = up[p][i]
                                           \/ up'[p][i].n <= made[p][up'[p][i].to]
      <3>1. <<m>> \in Seq(ToServer) /\ Len(<<m>>) = 1 /\ <<m>>[1] = m
        BY <2>2
      <3>2. m.n <= made[p][m.to]
        BY <2>1, <2>2, <2>4, PeerFacts
      <3>3. /\ Len(up[p]) \in Nat /\ Len(up'[p]) = Len(up[p]) + 1
            /\ \A i \in 1..Len(up[p]) : up'[p][i] = up[p][i]
            /\ \A i \in 1..Len(up'[p]) : i > Len(up[p]) => up'[p][i] = m
        BY <2>4, <3>1, SaysOne
      <3> QED
        BY <3>2, <3>3
    <2>5. task'[p] \subseteq task[p]
      BY <1>3 DEF P!Described, Typed, P!TypeOK
    <2>6. made' = made
      BY <1>3 DEF P!Described
    <2> QED
      BY <1>1, <1>2, <2>3, <2>4, <2>5, <2>6, MadeStays DEF Counts, Alone
  <1>4. ASSUME NEW q \in P!People, NEW a \in P!Attempts, P!PhoneCreated(p, q, a) PROVE Counts(p)
    <2>1. \A x, y \in P!People : made[x][y] <= made'[x][y]
      BY <1>4, CreatedTyped
    <2>2. up' = up
      BY <1>4 DEF P!PhoneCreated, P!PhoneStays
    <2>3. task[p] \in SUBSET P!Task
      BY DEF Typed, P!TypeOK
    <2>6. \A t \in task'[p] : \E u \in task[p] : u.op = t.op /\ u.who = t.who /\ u.of = t.of
      BY <1>4, CreatedTasks
    <2> QED
      BY <1>1, <1>2, <2>1, <2>2, <2>6 DEF Counts, Alone
  <1> QED
    BY <1>3, <1>4 DEF Connects

LEMMA NumbersStep ==
    ASSUME Typed, Typed', Numbers, [P!Next]_(P!vars)
    PROVE  Numbers'
  <1>1. CASE UNCHANGED P!vars
    BY <1>1 DEF P!vars, Numbers
  <1>2. CASE P!Next
    <2>1. PICK p \in P!People : P!Serve(p) \/ Moves(p) \/ Listens(p) \/ Connects(p)
      BY <1>2, StepKinds
    <2> QED
      BY <2>1, ServeTells, ServedNumbers, MovesCount, ListensCount, ConnectsCount, CountsKeep
  <1> QED
    BY <1>1, <1>2
-----------------------------------------------------------------------------
\* Who has not entered yet, as far as the gateway knows, and still may.
ToEnter(p) ==
    \/ tried[p] = 0 \/ flow[p][1] \in {"media", "ice"}
    \/ \E i \in 1..Len(up[p]) : up[p][i].type = "join"

\* What a message does to the one who hears it: it shows a person, takes one away, or
\* is the end of it.  A candidate of a phone is set apart, for it may come too late.
Shows(m, p) ==
    \/ m.type = "ack" /\ p \in m.who
    \/ m.type = "joined" /\ m.who = p
    \/ m.type = "sdp" /\ m.op = "offer" /\ m.who = p
    \/ m.type = "ice" /\ m.who = p /\ p \in Pages
Names(m, p) == Shows(m, p) \/ (m.type = "ice" /\ m.who = p)
Parts(m, p) == m.type = "left" /\ m.who = p
Dooms(m) == m.type = "ended" \/ (m.type = "ack" /\ ~m.ok)
IsOffer(m) == m.type = "sdp" /\ m.op = "offer"
Brings(p, m) == IsOffer(m) \/ (m.type = "ice" /\ p \in Pages)

\* Who is in it, and has heard of no end.
Settled(p) ==
    /\ phase[p] # "out" /\ ~ToEnter(p)
    /\ \A i \in 1..Len(down[p]) : ~Dooms(down[p][i])

PhaseOf(p) ==
    /\ phase[p] # "out" => tried[p] = 1
    /\ tried[p] = 0 => flow[p][1] = "none"
    /\ phase[p] = "opening" => flow[p][1] # "none"
    /\ p \in Pages =>
          /\ flow[p][1] = "media" <=> phase[p] = "opening"
          /\ flow[p][1] # "ice"
          /\ phase[p] = "in" => joined[p] \/ flow[p][1] = "ack"
          /\ phase[p] = "out" => \A q \in P!People : peer[p][q] = P!NoPeer
          /\ creating[p] = {}
    /\ p \in Phones /\ phase[p] = "in" => flow[p][1] = "none"
Phases == \A p \in P!People : PhaseOf(p)

\* One asks to enter once, and to leave when all offers have been made.
UpOrder == \A p \in P!People : \A i \in 1..Len(up[p]) :
    /\ up[p][i].type = "join" =>
          /\ tried[p] = 1 /\ flow[p][1] \in {"ack", "none"}
          /\ \A j \in 1..Len(up[p]) : up[p][j].type = "join" => i = j
    /\ up[p][i].type = "leave" =>
          /\ tried[p] = 1 /\ phase[p] = "out"
          /\ \A j \in i..Len(up[p]) : ~Brings(p, up[p][j])

\* ... and is answered once, while it is waited for.
DownOrder == \A p \in P!People : \A i \in 1..Len(down[p]) :
    down[p][i].type = "ack" =>
        /\ \A j \in 1..Len(down[p]) : down[p][j].type = "ack" => i = j
        /\ phase[p] # "out" => flow[p][1] = "ack"

\* It is about others.
Others == \A p \in P!People :
    /\ p \notin P!Shown(p)
    /\ \A i \in 1..Len(down[p]) : ~Shows(down[p][i], p)
    /\ \A t \in task[p] : t.op = "offer" => t.who # p
    /\ \A i \in 1..Len(up[p]) : Brings(p, up[p][i]) => up[p][i].to # p

\* p shows itself, or may, to q.
Knows(p, q) == q \in P!Shown(p) \/ \E i \in 1..Len(down[p]) : Names(down[p][i], q)
Offering(p, q) ==
    \/ \E i \in 1..Len(up[p]) : Brings(p, up[p][i]) /\ up[p][i].to = q
    \/ /\ phase[p] # "out"
       /\ \/ \E t \in task[p] : t.op = "offer" /\ t.who = q
          \/ \E i \in 1..Len(down[p]) : down[p][i].type = "ack" /\ q \in down[p][i].who
          \/ p \in Pages /\ Knows(p, q)
Offerers == \A p, q \in P!People : Settled(q) /\ Offering(p, q) => p \in room

\* Nobody has heard of who is yet to enter, who in turn hears of an end at most.
Unheard == \A p \in P!People : ToEnter(p) =>
    /\ p \notin room /\ task[p] = {} /\ P!Shown(p) = {} /\ ~joined[p]
    /\ \A i \in 1..Len(up[p]) : up[p][i].type \notin {"sdp", "ice"}
    /\ \A i \in 1..Len(down[p]) : down[p][i].type = "ended"
    /\ \A q \in P!People :
          /\ p \notin P!Shown(q)
          /\ \A i \in 1..Len(down[q]) : ~Names(down[q][i], p) /\ ~Parts(down[q][i], p)
          /\ ~Offering(q, p)
    /\ p \in Phones => /\ phase[p] # "in" /\ creating[p] = {}
                       /\ \A q \in P!People : made[p][q] = 0

\* Who is settled is inside and sees, or is about to, who else is.
Announced(q, p) ==
    \E i \in 1..Len(down[q]) : Shows(down[q][i], p) /\ down[q][i].type \notin {"sdp", "ice"}
TakenAway(q, p) ==
    \E j \in 1..Len(down[q]) :
        Parts(down[q][j], p) /\ \A i \in j..Len(down[q]) : ~Shows(down[q][i], p)
Sees(q, p) ==
    IF p \in room
    THEN /\ p \in P!Shown(q) \/ Announced(q, p)
         /\ \A i \in 1..Len(down[q]) : ~Parts(down[q][i], p)
    ELSE \/ q \in Pages /\ p \in Phones
         \/ p \in P!Shown(q) \/ (\E i \in 1..Len(down[q]) : Shows(down[q][i], p)) => TakenAway(q, p)
SettledSee == \A q \in P!People : Settled(q) =>
    /\ q \in room
    /\ \A i \in 1..Len(down[q]) : down[q][i].type = "ack" => i = 1 /\ P!Shown(q) = {}
    /\ \A p \in P!People \ {q} : Sees(q, p)

OnceInv ==
    /\ Typed /\ Numbers /\ PageFlows /\ Phases /\ UpOrder /\ DownOrder
    /\ Unheard /\ Others /\ Offerers /\ SettledSee

\* It is enough.
LEMMA OnceIsShown ==
    ASSUME OnceInv, MaxJoins = 1
    PROVE  P!ShownAreInside
  <1> SUFFICES ASSUME P!Quiet, NEW p \in P!Inside
               PROVE  /\ room \ {p} \subseteq P!Shown(p) /\ p \notin P!Shown(p)
                      /\ P!Shown(p) \ room \subseteq (IF p \in Pages THEN Phones ELSE {})
    BY DEF P!ShownAreInside
  <1>1. p \in P!People /\ phase[p] = "in" /\ 1 \in P!Attempts
    BY DEF P!Inside, OnceInv, Typed, P!TypeOK, P!Attempts
  <1>2. up[p] = <<>> /\ down[p] = <<>> /\ flow[p][1] = "none" /\ tried[p] = 1
    BY <1>1 DEF P!Quiet, OnceInv, Phases, PhaseOf
  <1>3. ~ToEnter(p)
    BY <1>2 DEF ToEnter
  <1>4. Settled(p)
    BY <1>1, <1>2, <1>3 DEF Settled
  <1>5. \A q \in P!People \ {p} :
            /\ q \in room => q \in P!Shown(p)
            /\ q \in P!Shown(p) => q \in room \/ (p \in Pages /\ q \in Phones)
    BY <1>1, <1>2, <1>4 DEF OnceInv, SettledSee, Sees, Announced, TakenAway
  <1>6. p \notin P!Shown(p) /\ P!Shown(p) \subseteq P!People /\ room \subseteq P!People
    BY <1>1 DEF OnceInv, Others, Typed, P!TypeOK, P!Shown
  <1> QED
    BY <1>5, <1>6
-----------------------------------------------------------------------------
\* What one person's step does.
Says(p) ==
    /\ Len(up'[p]) >= Len(up[p])
    /\ \A i \in 1..Len(up[p]) : up'[p][i] = up[p][i]
    /\ \A i \in 1..Len(up'[p]) : i > Len(up[p]) =>
        LET m == up'[p][i] IN
        /\ m.type = "join" => /\ Len(up'[p]) = Len(up[p]) + 1
                              /\ flow[p][1] \in {"media", "ice"} /\ flow'[p][1] = "ack"
        /\ m.type = "leave" =>
              /\ phase[p] # "out" /\ phase'[p] = "out"
              /\ \A j \in 1..Len(up'[p]) :
                    j > Len(up[p]) => up'[p][j].type \notin {"sdp", "ice"}
        /\ m.type = "sdp" =>
              /\ \E t \in task[p] : t.op = m.op /\ t.who = m.to
              /\ m.op = "offer" => phase[p] # "out"
        /\ m.type = "ice" =>
              IF p \in Pages THEN phase[p] # "out" /\ m.to \in P!Shown(p)
              ELSE \E q \in P!People : made[p][q] # 0

Turns(p) ==
    /\ PhaseOf(p)'
    /\ phase'[p] # "out" => phase[p] # "out" \/ tried[p] = 0
    /\ p \in Phones /\ phase'[p] = "in" /\ phase[p] # "in" =>
          \E i \in 1..Len(down[p]) : down[p][i].type = "ack"
    /\ tried'[p] = 0 => tried[p] = 0
    /\ tried[p] = 0 => tried'[p] = 0 \/ flow'[p][1] = "media"
    /\ flow'[p][1] \in {"media", "ice"} => flow[p][1] \in {"media", "ice"} \/ tried[p] = 0
    /\ flow[p][1] \in {"media", "ice"} /\ phase'[p] # "out" =>
          \/ flow'[p][1] \in {"media", "ice"}
          \/ \E i \in 1..Len(up'[p]) : up'[p][i].type = "join"

\* It hears nothing ...
Deaf(p) ==
    /\ down'[p] = down[p]
    /\ phase'[p] # "out" /\ ~ToEnter(p) => P!Shown(p)' = P!Shown(p) /\ flow'[p][1] = flow[p][1]
    /\ P!Shown(p)' \subseteq P!Shown(p)
    /\ joined'[p] => joined[p]
    /\ \A t \in task'[p] : \E u \in task[p] : t.op = u.op /\ t.who = u.who

\* ... or the first of what there is to hear.
Heard(p, m) ==
    /\ down[p] # <<>> /\ m = Head(down[p]) /\ down'[p] = Tail(down[p]) /\ up'[p] = up[p]
    /\ P!Shown(p)' \subseteq P!Shown(p) \cup
           {q \in P!People : Shows(m, q) \/ (p \in Pages /\ q \in Phones /\ Names(m, q))}
    /\ joined'[p] => joined[p] \/ m.type = "ack"
    /\ phase'[p] # "out" =>
          /\ phase[p] # "out" /\ ~Dooms(m)
          /\ \A q \in P!People :
                /\ q \in P!Shown(p) /\ ~Parts(m, q) => q \in P!Shown(p)' \/ m.type = "ack"
                /\ Parts(m, q) => q \notin P!Shown(p)'
                /\ Shows(m, q) /\ m.type \notin {"sdp", "ice"} => q \in P!Shown(p)'
          /\ m.type # "ack" => flow'[p][1] = flow[p][1]
    /\ \A t \in task'[p] :
          \/ t \in task[p]
          \/ t.op = "answer" /\ m.type = "sdp"
          \/ t.op = "offer" /\ m.type = "ack" /\ t.who \in m.who /\ phase[p] # "out"

\* A phone makes no connection unless it hears of somebody.
Makes(p) ==
    p \in Phones /\ creating[p] = {} =>
        /\ made'[p] = made[p]
        /\ creating'[p] = {} \/ \E i \in 1..Len(down[p]) : down[p][i].type # "ended"

Step(p) ==
    /\ Alone(p) /\ Says(p) /\ Turns(p) /\ Makes(p)
    /\ Deaf(p) \/ \E m \in FromServer : Heard(p, m)

\* What is heard was there, in the same order.
LEMMA HeardFacts ==
    ASSUME Typed, NEW p \in P!People, NEW m \in FromServer, Heard(p, m)
    PROVE  /\ Len(down[p]) \in Nat /\ 1 \in 1..Len(down[p]) /\ m = down[p][1]
           /\ Len(down'[p]) = Len(down[p]) - 1
           /\ \A i \in 1..Len(down'[p]) :
                 i + 1 \in 1..Len(down[p]) /\ down'[p][i] = down[p][i + 1]
           /\ \A i \in 1..Len(down[p]) :
                 i # 1 => i - 1 \in 1..Len(down'[p]) /\ down[p][i] = down'[p][i - 1]
  <1>1. down[p] \in Seq(FromServer) /\ down[p] # <<>> /\ m = Head(down[p])
        /\ down'[p] = Tail(down[p])
    BY DEF Typed, Heard
  <1> QED
    BY <1>1, TailFacts

LEMMA StillThere ==
    ASSUME Typed, NEW p \in P!People, Step(p), NEW i \in 1..Len(down'[p])
    PROVE  \E j \in 1..Len(down[p]) : down[p][j] = down'[p][i]
  <1>1. CASE Deaf(p)
    BY <1>1 DEF Deaf
  <1>2. ASSUME NEW m \in FromServer, Heard(p, m)
        PROVE  \E j \in 1..Len(down[p]) : down[p][j] = down'[p][i]
    BY <1>2, HeardFacts
  <1> QED
    BY <1>1, <1>2 DEF Step

\* What is new was said.
LEMMA SaidFacts ==
    ASSUME Typed, Typed', NEW p \in P!People, Says(p)
    PROVE  /\ Len(up[p]) \in Nat /\ Len(up'[p]) \in Nat
           /\ \A i \in 1..Len(up[p]) : i \in 1..Len(up'[p])
  BY DEF Typed, Says

LEMMA PhasesKept ==
    ASSUME OnceInv, NEW p \in P!People, Step(p)
    PROVE  Phases'
  BY DEF OnceInv, Phases, PhaseOf, Step, Turns, Alone

LEMMA ToEnterKept ==
    ASSUME OnceInv, Typed', NEW p \in P!People, Step(p), NEW q \in P!People
    PROVE  /\ ToEnter(q)' => ToEnter(q)
           /\ ToEnter(q) /\ phase'[q] # "out" => ToEnter(q)'
  <1>1. CASE q # p
    BY <1>1 DEF Step, Alone, ToEnter
  <1>2. CASE q = p
    <2>1. ASSUME NEW i \in 1..Len(up'[p]), up'[p][i].type = "join" PROVE ToEnter(p)
      BY <2>1, SaidFacts DEF Step, Says, ToEnter, OnceInv
    <2>2. ToEnter(q)' => ToEnter(q)
      BY <1>2, <2>1 DEF Step, Turns, ToEnter
    <2>3. ASSUME NEW i \in 1..Len(up[p]), up[p][i].type = "join"
          PROVE  \E j \in 1..Len(up'[p]) : up'[p][j].type = "join"
      BY <2>3, SaidFacts DEF Step, Says, OnceInv
    <2>4. ToEnter(q) /\ phase'[q] # "out" => ToEnter(q)'
      BY <1>2, <2>3 DEF Step, Turns, ToEnter
    <2> QED
      BY <2>2, <2>4
  <1> QED
    BY <1>1, <1>2

LEMMA OnceTypes ==
    ASSUME Typed, MaxJoins = 1, NEW p \in P!People
    PROVE  /\ tried[p] \in {0, 1} /\ flow[p][1] \in {"none", "media", "ice", "ack"}
           /\ phase[p] \in {"out", "opening", "in"} /\ 1 \in P!Attempts
           /\ Len(up[p]) \in Nat /\ Len(down[p]) \in Nat
           /\ \A i \in 1..Len(down[p]) : down[p][i] \in FromServer
           /\ \A i \in 1..Len(up[p]) : up[p][i] \in ToServer
  BY DEF Typed, P!TypeOK, P!Attempts

LEMMA UpOrderKept ==
    ASSUME OnceInv, Typed', MaxJoins = 1, NEW p \in P!People, Step(p)
    PROVE  UpOrder'
  <1> SUFFICES ASSUME NEW q \in P!People, NEW i \in 1..Len(up'[q])
               PROVE  /\ up'[q][i].type = "join" =>
                            /\ tried'[q] = 1 /\ flow'[q][1] \in {"ack", "none"}
                            /\ \A j \in 1..Len(up'[q]) : up'[q][j].type = "join" => i = j
                      /\ up'[q][i].type = "leave" =>
                            /\ tried'[q] = 1 /\ phase'[q] = "out"
                            /\ \A j \in i..Len(up'[q]) : ~Brings(q, up'[q][j])
    BY DEF UpOrder
  <1>1. CASE q # p
    BY <1>1 DEF Step, Alone, OnceInv, UpOrder
  <1>2. CASE q = p
    <2>1. Typed
      BY DEF OnceInv
    <2>2. /\ tried[p] \in {0, 1} /\ tried'[p] \in {0, 1}
          /\ flow[p][1] \in {"none", "media", "ice", "ack"}
          /\ flow'[p][1] \in {"none", "media", "ice", "ack"}
      BY <2>1, OnceTypes DEF Typed, P!TypeOK, P!Attempts
    <2>3. /\ Len(up[p]) \in Nat /\ Len(up'[p]) \in Nat
          /\ Len(up'[p]) >= Len(up[p])
          /\ \A j \in 1..Len(up[p]) : j \in 1..Len(up'[p]) /\ up'[p][j] = up[p][j]
      BY <2>1, SaidFacts DEF Step, Says
    <2>4. tried[p] = 1 => tried'[p] = 1
      BY <2>2 DEF Step, Turns
    <2>5. ASSUME NEW j \in 1..Len(up[p]), up[p][j].type = "join"
          PROVE  /\ tried[p] = 1 /\ flow[p][1] \in {"ack", "none"}
                 /\ \A k \in 1..Len(up[p]) : up[p][k].type = "join" => j = k
      BY <2>5 DEF OnceInv, UpOrder
    <2>6. ASSUME NEW j \in 1..Len(up[p]), up[p][j].type = "leave"
          PROVE  /\ tried[p] = 1 /\ phase[p] = "out"
                 /\ \A k \in j..Len(up[p]) : ~Brings(p, up[p][k])
      BY <2>6 DEF OnceInv, UpOrder
    <2>7. ASSUME NEW j \in 1..Len(up'[p]), j > Len(up[p]), up'[p][j].type = "join"
          PROVE  /\ Len(up'[p]) = Len(up[p]) + 1
                 /\ flow[p][1] \in {"media", "ice"} /\ flow'[p][1] = "ack"
      BY <2>7 DEF Step, Says
    <2>8. CASE up'[p][i].type = "join"
      <3>1. CASE i \in 1..Len(up[p])
        <4>1. tried[p] = 1 /\ flow[p][1] \in {"ack", "none"}
          BY <2>3, <2>5, <2>8, <3>1
        <4>2. flow'[p][1] \in {"ack", "none"}
          BY <2>2, <4>1 DEF Step, Turns
        <4>3. ASSUME NEW j \in 1..Len(up'[p]), up'[p][j].type = "join" PROVE i = j
          <5>1. j \in 1..Len(up[p])
            BY <2>3, <2>7, <4>1, <4>3
          <5> QED
            BY <2>3, <2>5, <2>8, <3>1, <4>3, <5>1
        <4> QED
          BY <1>2, <2>4, <2>8, <4>1, <4>2, <4>3
      <3>2. CASE i > Len(up[p])
        <4>1. /\ Len(up'[p]) = Len(up[p]) + 1
              /\ flow[p][1] \in {"media", "ice"} /\ flow'[p][1] = "ack"
          BY <1>2, <2>7, <2>8, <3>2
        <4>2. tried[p] = 1
          BY <2>2, <4>1 DEF OnceInv, Phases, PhaseOf
        <4>3. ASSUME NEW j \in 1..Len(up'[p]), up'[p][j].type = "join" PROVE i = j
          <5>1. j \notin 1..Len(up[p])
            BY <2>3, <2>5, <4>1, <4>3
          <5> QED
            BY <1>2, <2>3, <3>2, <4>1, <5>1
        <4> QED
          BY <1>2, <2>4, <2>8, <4>1, <4>2, <4>3
      <3> QED
        BY <1>2, <2>3, <3>1, <3>2
    <2>9. CASE up'[p][i].type = "leave"
      <3>1. CASE i \in 1..Len(up[p])
        <4>1. tried[p] = 1 /\ phase[p] = "out"
          BY <2>3, <2>6, <2>9, <3>1
        <4>2. phase'[p] = "out"
          BY <4>1 DEF Step, Turns
        <4>3. ASSUME NEW j \in i..Len(up'[p]) PROVE ~Brings(p, up'[p][j])
          <5>1. CASE j \in 1..Len(up[p])
            BY <2>3, <2>6, <2>9, <3>1, <5>1
          <5>2. CASE j > Len(up[p])
            BY <1>2, <2>3, <4>1, <5>2 DEF Step, Says, IsOffer, Brings
          <5> QED
            BY <1>2, <2>3, <5>1, <5>2
        <4> QED
          BY <1>2, <2>4, <2>9, <4>1, <4>2, <4>3
      <3>2. CASE i > Len(up[p])
        <4>1. /\ phase[p] # "out" /\ phase'[p] = "out"
              /\ \A j \in 1..Len(up'[p]) : j > Len(up[p]) => up'[p][j].type \notin {"sdp", "ice"}
          BY <1>2, <2>9, <3>2 DEF Step, Says
        <4>2. tried[p] = 1
          BY <4>1 DEF OnceInv, Phases, PhaseOf
        <4>3. ASSUME NEW j \in i..Len(up'[p]) PROVE ~Brings(p, up'[p][j])
          BY <1>2, <2>3, <3>2, <4>1 DEF IsOffer, Brings
        <4> QED
          BY <1>2, <2>4, <2>9, <4>1, <4>2, <4>3
      <3> QED
        BY <1>2, <2>3, <3>1, <3>2
    <2> QED
      BY <1>2, <2>8, <2>9
  <1> QED
    BY <1>1, <1>2

LEMMA DownOrderKept ==
    ASSUME OnceInv, Typed', MaxJoins = 1, NEW p \in P!People, Step(p)
    PROVE  DownOrder'
  <1> SUFFICES ASSUME NEW q \in P!People, NEW i \in 1..Len(down'[q]), down'[q][i].type = "ack"
               PROVE  /\ \A j \in 1..Len(down'[q]) : down'[q][j].type = "ack" => i = j
                      /\ phase'[q] # "out" => flow'[q][1] = "ack"
    BY DEF DownOrder
  <1>1. CASE q # p
    BY <1>1 DEF Step, Alone, OnceInv, DownOrder
  <1>2. CASE q = p
    <2>1. phase'[p] # "out" => phase[p] # "out" \/ tried[p] = 0
      BY DEF Step, Turns
    <2>2. PICK k \in 1..Len(down[p]) : down[p][k] = down'[p][i]
      BY <1>2, StillThere DEF OnceInv
    <2>3. /\ down[p][k].type = "ack" /\ ~ToEnter(p)
          /\ phase[p] # "out" => flow[p][1] = "ack"
          /\ \A j \in 1..Len(down[p]) : down[p][j].type = "ack" => k = j
      <3>1. down[p][k].type = "ack"
        BY <1>2, <2>2
      <3>2. ~ToEnter(p)
        BY <3>1 DEF OnceInv, Unheard
      <3> QED
        BY <3>1, <3>2 DEF OnceInv, DownOrder
    <2>4. tried[p] # 0
      BY <2>3 DEF ToEnter
    <2>5. CASE Deaf(p)
      BY <1>2, <2>1, <2>2, <2>3, <2>4, <2>5 DEF Deaf
    <2>6. ASSUME NEW m \in FromServer, Heard(p, m)
          PROVE  /\ \A j \in 1..Len(down'[q]) : down'[q][j].type = "ack" => i = j
                 /\ phase'[q] # "out" => flow'[q][1] = "ack"
      <3>1. Typed
        BY DEF OnceInv
      <3>2. i + 1 \in 1..Len(down[p]) /\ down[p][i + 1].type = "ack" /\ m = down[p][1]
        BY <1>2, <2>6, <3>1, HeardFacts
      <3>3. i + 1 = k /\ k # 1
        BY <1>2, <2>3, <3>2
      <3>4. m.type # "ack"
        BY <2>3, <2>6, <3>1, <3>2, <3>3, HeardFacts
      <3>5. ASSUME NEW j \in 1..Len(down'[q]), down'[q][j].type = "ack" PROVE i = j
        <4>1. j + 1 \in 1..Len(down[p]) /\ down[p][j + 1].type = "ack"
          BY <1>2, <2>6, <3>1, <3>5, HeardFacts
        <4>2. j + 1 = k
          BY <2>3, <4>1
        <4> QED
          BY <1>2, <2>6, <3>1, <3>3, <4>2, HeardFacts
      <3> QED
        BY <1>2, <2>1, <2>3, <2>4, <2>6, <3>4, <3>5 DEF Heard
    <2> QED
      BY <2>5, <2>6 DEF Step
  <1> QED
    BY <1>1, <1>2

\* Shown, as far as others are concerned.
LEMMA ShownAlone ==
    ASSUME NEW p, Alone(p), NEW q \in P!People \ {p}
    PROVE  P!Shown(q)' = P!Shown(q)
  BY DEF Alone, P!Shown

LEMMA ShownGrows ==
    ASSUME OnceInv, NEW p \in P!People, Step(p), NEW q \in P!Shown(p)'
    PROVE  \/ q \in P!Shown(p) \/ \E i \in 1..Len(down[p]) : Shows(down[p][i], q)
           \/ p \in Pages /\ q \in Phones /\ \E i \in 1..Len(down[p]) : Names(down[p][i], q)
  BY HeardFacts DEF Step, Deaf, Heard, OnceInv

LEMMA KnowsBefore ==
    ASSUME OnceInv, NEW p \in P!People, Step(p), NEW q, Knows(p, q)'
    PROVE  Knows(p, q)
  <1>1. CASE q \in P!Shown(p)'
    BY <1>1, ShownGrows DEF Knows, Names
  <1>2. ASSUME NEW i \in 1..Len(down'[p]), Names(down'[p][i], q) PROVE Knows(p, q)
    BY <1>2, StillThere DEF Knows, OnceInv
  <1> QED
    BY <1>1, <1>2 DEF Knows

\* What is heard, and what is to be done, was so before, or is an ack's.
LEMMA TasksCome ==
    ASSUME OnceInv, NEW p \in P!People, Step(p), NEW t \in task'[p]
    PROVE  \/ \E u \in task[p] : t.op = u.op /\ t.who = u.who
           \/ /\ phase[p] # "out" \/ t.op = "answer"
              /\ \E i \in 1..Len(down[p]) :
                    \/ down[p][i].type = "sdp" /\ t.op = "answer"
                    \/ down[p][i].type = "ack" /\ t.op = "offer" /\ t.who \in down[p][i].who
  <1>1. CASE Deaf(p)
    BY <1>1 DEF Deaf
  <1>2. ASSUME NEW m \in FromServer, Heard(p, m)
        PROVE  \/ t \in task[p]
               \/ /\ phase[p] # "out" \/ t.op = "answer"
                  /\ \E i \in 1..Len(down[p]) :
                        \/ down[p][i].type = "sdp" /\ t.op = "answer"
                        \/ down[p][i].type = "ack" /\ t.op = "offer" /\ t.who \in down[p][i].who
    <2>1. 1 \in 1..Len(down[p]) /\ m = down[p][1]
      BY <1>2, HeardFacts DEF OnceInv
    <2> QED
      BY <1>2, <2>1 DEF Heard
  <1> QED
    BY <1>1, <1>2 DEF Step

LEMMA OffersCome ==
    ASSUME OnceInv, Typed', NEW p \in P!People, Step(p), NEW x \in P!People, NEW q \in P!People,
           Offering(x, q)'
    PROVE  Offering(x, q)
  <1>1. CASE x # p
    <2>1. up'[x] = up[x] /\ phase'[x] = phase[x] /\ task'[x] = task[x] /\ down'[x] = down[x]
      BY <1>1 DEF Step, Alone
    <2>2. P!Shown(x)' = P!Shown(x)
      BY <1>1, ShownAlone DEF Step
    <2> QED
      BY <2>1, <2>2 DEF Offering, Knows
  <1>2. CASE x = p
    <2>1. ASSUME NEW i \in 1..Len(up'[p]), Brings(p, up'[p][i]), up'[p][i].to = q
          PROVE  Offering(p, q)
      <3>1. CASE i \in 1..Len(up[p])
        BY <2>1, <3>1 DEF Step, Says, Offering
      <3>2. CASE i > Len(up[p])
        <4>1. phase[p] # "out" /\ \/ \E t \in task[p] : t.op = "offer" /\ t.who = q
                                  \/ p \in Pages /\ q \in P!Shown(p)
          BY <2>1, <3>2 DEF Step, Says, IsOffer, Brings
        <4> QED
          BY <4>1 DEF Offering, Knows
      <3>3. Len(up[p]) \in Nat /\ Len(up'[p]) \in Nat
        BY SaidFacts DEF Step, OnceInv
      <3> QED
        BY <3>1, <3>2, <3>3
    <2>2. ASSUME phase'[p] # "out", NEW t \in task'[p], t.op = "offer", t.who = q
          PROVE  Offering(p, q)
      <3>1. \/ \E u \in task[p] : u.op = "offer" /\ u.who = q
            \/ phase[p] # "out" /\ \E i \in 1..Len(down[p]) :
                                       down[p][i].type = "ack" /\ q \in down[p][i].who
        BY <2>2, TasksCome
      <3>2. tried[p] = 0 => task[p] = {}
        BY DEF OnceInv, Unheard, ToEnter
      <3>3. (\E u \in task[p] : u.op = "offer" /\ u.who = q) => phase[p] # "out"
        BY <2>2, <3>2 DEF Step, Turns
      <3> QED
        BY <3>1, <3>3 DEF Offering
    <2>3. ASSUME phase'[p] # "out", NEW i \in 1..Len(down'[p]),
                 down'[p][i].type = "ack", q \in down'[p][i].who
          PROVE  Offering(p, q)
      <3>1. PICK j \in 1..Len(down[p]) : down[p][j] = down'[p][i]
        BY StillThere DEF OnceInv
      <3>2. down[p][j].type = "ack" /\ q \in down[p][j].who
        BY <2>3, <3>1
      <3>3. tried[p] # 0
        BY <3>2 DEF OnceInv, Unheard, ToEnter
      <3>4. phase[p] # "out"
        BY <2>3, <3>3 DEF Step, Turns
      <3> QED
        BY <3>2, <3>4 DEF Offering
    <2>4. ASSUME phase'[p] # "out", p \in Pages, Knows(p, q)'
          PROVE  Offering(p, q)
      <3>1. Knows(p, q)
        BY <2>4, KnowsBefore
      <3>2. tried[p] # 0
        BY <3>1 DEF OnceInv, Unheard, ToEnter, Knows, Names, Shows
      <3>3. phase[p] # "out"
        BY <2>4, <3>2 DEF Step, Turns
      <3> QED
        BY <2>4, <3>1, <3>3 DEF Offering
    <2>5. \/ \E i \in 1..Len(up'[p]) : Brings(p, up'[p][i]) /\ up'[p][i].to = q
          \/ phase'[p] # "out" /\ \E t \in task'[p] : t.op = "offer" /\ t.who = q
          \/ phase'[p] # "out" /\ \E i \in 1..Len(down'[p]) :
                                      down'[p][i].type = "ack" /\ q \in down'[p][i].who
          \/ phase'[p] # "out" /\ p \in Pages /\ Knows(p, q)'
      BY <1>2 DEF Offering
    <2> QED
      BY <1>2, <2>1, <2>2, <2>3, <2>4, <2>5
  <1> QED
    BY <1>1, <1>2

LEMMA UnheardKept ==
    ASSUME OnceInv, Typed', MaxJoins = 1, NEW p \in P!People, Step(p)
    PROVE  Unheard'
  <1> SUFFICES ASSUME NEW q \in P!People, ToEnter(q)'
               PROVE  /\ q \notin room' /\ task'[q] = {} /\ P!Shown(q)' = {} /\ ~joined'[q]
                      /\ \A i \in 1..Len(up'[q]) : up'[q][i].type \notin {"sdp", "ice"}
                      /\ \A i \in 1..Len(down'[q]) : down'[q][i].type = "ended"
                      /\ \A r \in P!People :
                            /\ q \notin P!Shown(r)'
                            /\ \A i \in 1..Len(down'[r]) :
                                  ~Names(down'[r][i], q) /\ ~Parts(down'[r][i], q)
                            /\ ~Offering(r, q)'
                      /\ q \in Phones => /\ phase'[q] # "in" /\ creating'[q] = {}
                                         /\ \A r \in P!People : made'[q][r] = 0
    BY DEF Unheard, Step, Alone
  <1>1. ToEnter(q)
    BY ToEnterKept
  <1>2. /\ q \notin room /\ task[q] = {} /\ P!Shown(q) = {} /\ ~joined[q]
        /\ \A i \in 1..Len(up[q]) : up[q][i].type \notin {"sdp", "ice"}
        /\ \A i \in 1..Len(down[q]) : down[q][i].type = "ended"
        /\ \A r \in P!People :
              /\ q \notin P!Shown(r)
              /\ \A i \in 1..Len(down[r]) : ~Names(down[r][i], q) /\ ~Parts(down[r][i], q)
              /\ ~Offering(r, q)
        /\ q \in Phones => /\ phase[q] # "in" /\ creating[q] = {}
                           /\ \A r \in P!People : made[q][r] = 0
    BY <1>1 DEF OnceInv, Unheard
  <1>3. ASSUME NEW r \in P!People, NEW i \in 1..Len(down'[r])
        PROVE  \E j \in 1..Len(down[r]) : down[r][j] = down'[r][i]
    BY StillThere DEF Step, Alone, OnceInv
  <1>4. \A r \in P!People : q \notin P!Shown(r)'
    BY <1>2, ShownAlone, ShownGrows DEF Step, Names
  <1>7. \A r \in P!People : ~Offering(r, q)'
    BY <1>2, OffersCome
  <1>5. CASE q # p
    <2>1. P!Shown(q)' = {}
      BY <1>2, <1>5, ShownAlone DEF Step
    <2> QED
      BY <1>2, <1>3, <1>4, <1>5, <1>7, <2>1 DEF Step, Alone
  <1>6. CASE q = p
    <2>1. \A r : \A i \in 1..Len(down[p]) : ~Shows(down[p][i], r) /\ ~Names(down[p][i], r)
      BY <1>2, <1>6 DEF Shows, Names
    <2>2. P!Shown(q)' = {}
      BY <1>2, <1>6, <2>1, ShownGrows
    <2>3. task'[q] = {}
      BY <1>2, <1>6, TasksCome
    <2>4. ~joined'[q]
      BY <1>2, <1>6, HeardFacts DEF Step, Deaf, Heard, OnceInv
    <2>5. \A i \in 1..Len(up'[q]) : up'[q][i].type \notin {"sdp", "ice"}
      BY <1>2, <1>6, SaidFacts DEF Step, Says, OnceInv, P!People
    <2>6. q \notin room'
      BY <1>2 DEF Step, Alone
    <2>7. \A i \in 1..Len(down'[q]) : down'[q][i].type = "ended"
      BY <1>2, <1>3
    <2>8. q \in Phones => /\ phase'[q] # "in" /\ creating'[q] = {}
                         /\ \A r \in P!People : made'[q][r] = 0
      BY <1>2, <1>6 DEF Step, Turns, Makes
    <2> QED
      BY <1>2, <1>3, <1>4, <1>7, <2>2, <2>3, <2>4, <2>5, <2>6, <2>7, <2>8
  <1> QED
    BY <1>5, <1>6

LEMMA OthersKept ==
    ASSUME OnceInv, Typed', NEW p \in P!People, Step(p)
    PROVE  Others'
  <1> SUFFICES ASSUME NEW q \in P!People
               PROVE  /\ q \notin P!Shown(q)'
                      /\ \A i \in 1..Len(down'[q]) : ~Shows(down'[q][i], q)
                      /\ \A t \in task'[q] : t.op = "offer" => t.who # q
                      /\ \A i \in 1..Len(up'[q]) : Brings(q, up'[q][i]) => up'[q][i].to # q
    BY DEF Others
  <1>1. /\ q \notin P!Shown(q)
        /\ \A i \in 1..Len(down[q]) : ~Shows(down[q][i], q)
        /\ \A t \in task[q] : t.op = "offer" => t.who # q
        /\ \A i \in 1..Len(up[q]) : Brings(q, up[q][i]) => up[q][i].to # q
    BY DEF OnceInv, Others
  <1>2. CASE q # p
    <2>1. P!Shown(q)' = P!Shown(q)
      BY <1>2, ShownAlone DEF Step
    <2>2. down'[q] = down[q] /\ task'[q] = task[q] /\ up'[q] = up[q]
      BY <1>2 DEF Step, Alone
    <2> QED
      BY <1>1, <2>1, <2>2
  <1>3. CASE q = p
    <2>1. q \notin P!Shown(q)'
      BY <1>1, <1>3, ShownGrows, MeshAssumption
    <2>2. \A i \in 1..Len(down'[q]) : ~Shows(down'[q][i], q)
      BY <1>1, <1>3, StillThere DEF OnceInv
    <2>3. \A t \in task'[q] : t.op = "offer" => t.who # q
      BY <1>1, <1>3, TasksCome DEF Shows
    <2>4. \A i \in 1..Len(up'[q]) : Brings(q, up'[q][i]) => up'[q][i].to # q
      BY <1>1, <1>3, SaidFacts DEF Step, Says, OnceInv, IsOffer, Brings
    <2> QED
      BY <2>1, <2>2, <2>3, <2>4
  <1> QED
    BY <1>2, <1>3

LEMMA SettledBefore ==
    ASSUME OnceInv, Typed', NEW p \in P!People, Step(p), NEW q \in P!People, Settled(q)'
    PROVE  Settled(q)
  <1>1. phase'[q] # "out" /\ ~ToEnter(q)' /\ \A i \in 1..Len(down'[q]) : ~Dooms(down'[q][i])
    BY DEF Settled
  <1>2. ~ToEnter(q)
    BY <1>1, ToEnterKept
  <1>3. CASE q # p
    BY <1>1, <1>2, <1>3 DEF Step, Alone, Settled
  <1>4. CASE q = p
    <2>1. phase[p] # "out"
      BY <1>1, <1>2, <1>4 DEF Step, Turns, ToEnter
    <2>2. CASE Deaf(p)
      BY <1>1, <1>2, <1>4, <2>1, <2>2 DEF Deaf, Settled
    <2>3. ASSUME NEW m \in FromServer, Heard(p, m) PROVE Settled(q)
      <3>1. ~Dooms(m)
        BY <1>1, <1>4, <2>3 DEF Heard
      <3>2. ASSUME NEW i \in 1..Len(down[p]) PROVE ~Dooms(down[p][i])
        BY <1>1, <1>4, <2>3, <3>1, HeardFacts DEF OnceInv
      <3> QED
        BY <1>2, <1>4, <2>1, <3>2 DEF Settled
    <2> QED
      BY <2>2, <2>3 DEF Step
  <1> QED
    BY <1>3, <1>4

LEMMA OfferersKept ==
    ASSUME OnceInv, Typed', NEW p \in P!People, Step(p)
    PROVE  Offerers'
  BY SettledBefore, OffersCome DEF Offerers, OnceInv, Step, Alone

\* What is seen is seen after one more message.
LEMMA SeesOn ==
    ASSUME OnceInv, NEW p \in P!People, NEW m \in FromServer, Heard(p, m), UNCHANGED room,
           phase'[p] # "out", NEW x \in P!People, Sees(p, x), m.type = "ack" => P!Shown(p) = {}
    PROVE  Sees(p, x)'
  <1>1. /\ m = down[p][1] /\ 1 \in 1..Len(down[p])
        /\ \A i \in 1..Len(down'[p]) :
              i + 1 \in 1..Len(down[p]) /\ down'[p][i] = down[p][i + 1]
        /\ \A i \in 1..Len(down[p]) :
              i # 1 => i - 1 \in 1..Len(down'[p]) /\ down[p][i] = down'[p][i - 1]
        /\ Len(down[p]) \in Nat /\ Len(down'[p]) = Len(down[p]) - 1
    BY HeardFacts DEF OnceInv
  <1>2. /\ x \in P!Shown(p) /\ ~Parts(m, x) => x \in P!Shown(p)' \/ m.type = "ack"
        /\ Parts(m, x) => x \notin P!Shown(p)'
        /\ Shows(m, x) /\ m.type \notin {"sdp", "ice"} => x \in P!Shown(p)'
        /\ x \in P!Shown(p)' =>
              x \in P!Shown(p) \/ Shows(m, x) \/ (p \in Pages /\ x \in Phones)
    BY DEF Heard
  <1>3. CASE x \in room
    <2>1. x \in P!Shown(p) \/ Announced(p, x)
      BY <1>3 DEF Sees
    <2>2. \A i \in 1..Len(down[p]) : ~Parts(down[p][i], x)
      BY <1>3 DEF Sees
    <2>3. \A i \in 1..Len(down'[p]) : ~Parts(down'[p][i], x)
      BY <1>1, <2>2
    <2>4. CASE x \in P!Shown(p)
      BY <1>1, <1>2, <1>3, <2>2, <2>3, <2>4 DEF Sees
    <2>5. ASSUME NEW i \in 1..Len(down[p]), Shows(down[p][i], x),
                 down[p][i].type \notin {"sdp", "ice"}
          PROVE  x \in P!Shown(p)' \/ Announced(p, x)'
      BY <1>1, <1>2, <2>5 DEF Announced
    <2> QED
      BY <1>3, <2>1, <2>3, <2>4, <2>5 DEF Sees, Announced
  <1>4. CASE x \notin room
    <2> SUFFICES ASSUME ~(p \in Pages /\ x \in Phones),
                        x \in P!Shown(p)' \/ \E i \in 1..Len(down'[p]) : Shows(down'[p][i], x)
                 PROVE  TakenAway(p, x)'
      BY <1>4 DEF Sees
    <2>1. x \in P!Shown(p) \/ \E i \in 1..Len(down[p]) : Shows(down[p][i], x)
      BY <1>1, <1>2
    <2>2. PICK j \in 1..Len(down[p]) :
              Parts(down[p][j], x) /\ \A i \in j..Len(down[p]) : ~Shows(down[p][i], x)
      BY <1>4, <2>1 DEF Sees, TakenAway
    <2>3. j # 1
      <3> SUFFICES ASSUME j = 1 PROVE FALSE
        OBVIOUS
      <3>1. x \notin P!Shown(p)'
        BY <1>1, <1>2, <2>2
      <3>2. \A i \in 1..Len(down'[p]) : ~Shows(down'[p][i], x)
        BY <1>1, <2>2
      <3> QED
        BY <3>1, <3>2
    <2>4. j - 1 \in 1..Len(down'[p]) /\ Parts(down'[p][j - 1], x)
      BY <1>1, <2>2, <2>3
    <2>5. ASSUME NEW i \in (j - 1)..Len(down'[p]) PROVE ~Shows(down'[p][i], x)
      <3>1. i \in 1..Len(down'[p]) /\ i + 1 \in j..Len(down[p])
        BY <1>1, <2>2, <2>4
      <3> QED
        BY <1>1, <2>2, <3>1
    <2> QED
      BY <2>4, <2>5 DEF TakenAway
  <1> QED
    BY <1>3, <1>4

LEMMA SettledSeeKept ==
    ASSUME OnceInv, Typed', NEW p \in P!People, Step(p)
    PROVE  SettledSee'
  <1> SUFFICES ASSUME NEW q \in P!People, Settled(q)'
               PROVE  /\ q \in room
                      /\ \A i \in 1..Len(down'[q]) :
                            down'[q][i].type = "ack" => i = 1 /\ P!Shown(q)' = {}
                      /\ \A x \in P!People \ {q} : Sees(q, x)'
    BY DEF SettledSee, Step, Alone
  <1>1. Settled(q)
    BY SettledBefore
  <1>2. /\ q \in room
        /\ \A i \in 1..Len(down[q]) : down[q][i].type = "ack" => i = 1 /\ P!Shown(q) = {}
        /\ \A x \in P!People \ {q} : Sees(q, x)
    BY <1>1 DEF OnceInv, SettledSee
  <1>3. UNCHANGED room
    BY DEF Step, Alone
  <1>4. ASSUME down'[q] = down[q], P!Shown(q)' = P!Shown(q)
        PROVE  /\ \A i \in 1..Len(down'[q]) :
                      down'[q][i].type = "ack" => i = 1 /\ P!Shown(q)' = {}
               /\ \A x \in P!People \ {q} : Sees(q, x)'
    <2>1. ASSUME NEW x \in P!People \ {q} PROVE Sees(q, x)'
      <3>1. Announced(q, x)' = Announced(q, x) /\ TakenAway(q, x)' = TakenAway(q, x)
        BY <1>4 DEF Announced, TakenAway
      <3> QED
        BY <1>2, <1>3, <1>4, <3>1 DEF Sees
    <2> QED
      BY <1>2, <1>4, <2>1
  <1>5. CASE q # p
    <2>1. Alone(p)
      BY DEF Step
    <2>2. P!Shown(q)' = P!Shown(q)
      BY <1>5, <2>1, ShownAlone
    <2>3. down'[q] = down[q]
      BY <1>5, <2>1 DEF Alone
    <2> QED
      BY <1>2, <1>4, <2>2, <2>3
  <1>6. CASE q = p /\ Deaf(p)
    <2>1. P!Shown(q)' = P!Shown(q) /\ down'[q] = down[q]
      BY <1>1, <1>6 DEF Deaf, Settled
    <2> QED
      BY <1>2, <1>4, <2>1
  <1>7. ASSUME q = p, NEW m \in FromServer, Heard(p, m)
        PROVE  /\ \A i \in 1..Len(down'[q]) : down'[q][i].type # "ack"
               /\ \A x \in P!People \ {q} : Sees(q, x)'
    <2>1. /\ m = down[q][1] /\ 1 \in 1..Len(down[q])
          /\ \A i \in 1..Len(down'[q]) :
                i + 1 \in 1..Len(down[q]) /\ down'[q][i] = down[q][i + 1]
      BY <1>7, HeardFacts DEF OnceInv
    <2>2. \A i \in 1..Len(down'[q]) : i # 0
      OBVIOUS
    <2>3. ASSUME NEW i \in 1..Len(down'[q]) PROVE down'[q][i].type # "ack"
      BY <1>2, <2>1, <2>2
    <2>4. m.type = "ack" => P!Shown(q) = {}
      BY <1>2, <2>1
    <2>5. phase'[q] # "out"
      BY DEF Settled
    <2> QED
      BY <1>2, <1>3, <1>7, <2>3, <2>4, <2>5, SeesOn
  <1> QED
    BY <1>2, <1>5, <1>6, <1>7 DEF Step

LEMMA OnceKept ==
    ASSUME OnceInv, Typed', PageFlows', Numbers', MaxJoins = 1, NEW p \in P!People, Step(p)
    PROVE  OnceInv'
  BY PhasesKept, UpOrderKept, DownOrderKept, UnheardKept, OthersKept, OfferersKept,
     SettledSeeKept DEF OnceInv
-----------------------------------------------------------------------------
LEMMA FrameFacts ==
    ASSUME Typed, NEW p \in P!People, Frame(p), NEW q \in P!People
    PROVE  /\ ToEnter(q)' => ToEnter(q)
           /\ q # p => (ToEnter(q)' <=> ToEnter(q))
           /\ P!Shown(q)' = P!Shown(q)
  <1>1. /\ tried' = tried /\ flow' = flow
        /\ peer' = peer /\ members' = members
    BY DEF Frame
  <1>2. \A i \in 1..Len(up'[q]) : \E j \in 1..Len(up[q]) : up'[q][i] = up[q][j]
    BY UpFacts
  <1>3. q # p => up'[q] = up[q]
    BY UpFacts
  <1> QED
    BY <1>1, <1>2, <1>3 DEF ToEnter, P!Shown

\* Who asks to enter is inside of nothing yet, and asks once.
LEMMA JoinFacts ==
    ASSUME OnceInv, MaxJoins = 1, NEW p \in P!People, Frame(p), up[p][1].type = "join"
    PROVE  /\ ToEnter(p) /\ ~ToEnter(p)' /\ p \notin room
           /\ \A i \in 1..Len(down[p]) : down[p][i].type = "ended"
           /\ phase[p] # "out" => flow[p][1] = "ack"
  <1>1. Typed
    BY DEF OnceInv
  <1>2. /\ 1 \in 1..Len(up[p]) /\ Len(up[p]) \in Nat
        /\ \A i \in 1..Len(up'[p]) : i + 1 \in 1..Len(up[p]) /\ up'[p][i] = up[p][i + 1] /\ i # 0
    BY <1>1, UpFacts
  <1>3. ToEnter(p)
    BY <1>2 DEF ToEnter
  <1>4. /\ tried[p] = 1 /\ flow[p][1] \in {"ack", "none"}
        /\ \A j \in 1..Len(up[p]) : up[p][j].type = "join" => 1 = j
    BY <1>2 DEF OnceInv, UpOrder
  <1>5. \A i \in 1..Len(up'[p]) : up'[p][i].type # "join"
    <2> SUFFICES ASSUME NEW i \in 1..Len(up'[p]), up'[p][i].type = "join" PROVE FALSE
      OBVIOUS
    <2>1. i + 1 = 1
      BY <1>2, <1>4
    <2> QED
      BY <2>1
  <1>6. ~ToEnter(p)'
    <2>1. tried' = tried /\ flow' = flow
      BY DEF Frame
    <2> QED
      BY <1>4, <1>5, <2>1 DEF ToEnter
  <1>7. /\ p \notin room /\ ~joined[p]
        /\ p \in Phones => phase[p] # "in"
        /\ \A i \in 1..Len(down[p]) : down[p][i].type = "ended"
    BY <1>3 DEF OnceInv, Unheard
  <1>8. phase[p] # "out" => flow[p][1] = "ack"
    <2>1. phase[p] \in {"out", "opening", "in"} /\ (p \in Pages \/ p \in Phones)
      BY <1>1, OnceTypes DEF P!People
    <2>2. PhaseOf(p)
      BY DEF OnceInv, Phases
    <2> QED
      BY <1>3, <1>4, <1>7, <2>1, <2>2 DEF PhaseOf, OnceInv, Unheard
  <1> QED
    BY <1>3, <1>6, <1>7, <1>8

LEMMA ServedPhases ==
    ASSUME OnceInv, NEW p \in P!People, Served(p)
    PROVE  Phases'
  BY DEF OnceInv, Phases, PhaseOf, Served, Frame

LEMMA ServedUpOrder ==
    ASSUME OnceInv, NEW p \in P!People, Served(p)
    PROVE  UpOrder'
  <1> SUFFICES ASSUME NEW q \in P!People, NEW i \in 1..Len(up'[q])
               PROVE  /\ up'[q][i].type = "join" =>
                            /\ tried[q] = 1 /\ flow[q][1] \in {"ack", "none"}
                            /\ \A j \in 1..Len(up'[q]) : up'[q][j].type = "join" => i = j
                      /\ up'[q][i].type = "leave" =>
                            /\ tried[q] = 1 /\ phase[q] = "out"
                            /\ \A j \in i..Len(up'[q]) : ~Brings(q, up'[q][j])
    BY DEF UpOrder, Served, Frame
  <1>1. CASE q # p
    <2>1. up'[q] = up[q]
      BY <1>1, UpFacts DEF Served, OnceInv
    <2> QED
      BY <2>1 DEF OnceInv, UpOrder
  <1>2. CASE q = p
    <2>1. /\ Len(up[p]) \in Nat /\ Len(up'[p]) = Len(up[p]) - 1
          /\ \A j \in 1..Len(up'[p]) : j + 1 \in 1..Len(up[p]) /\ up'[p][j] = up[p][j + 1]
      BY UpFacts DEF Served, OnceInv
    <2>2. i + 1 \in 1..Len(up[p]) /\ up'[p][i] = up[p][i + 1]
      BY <1>2, <2>1
    <2>3. /\ up[p][i + 1].type = "join" =>
                /\ tried[p] = 1 /\ flow[p][1] \in {"ack", "none"}
                /\ \A j \in 1..Len(up[p]) : up[p][j].type = "join" => i + 1 = j
          /\ up[p][i + 1].type = "leave" =>
                /\ tried[p] = 1 /\ phase[p] = "out"
                /\ \A j \in (i + 1)..Len(up[p]) : ~Brings(p, up[p][j])
      BY <2>2 DEF OnceInv, UpOrder
    <2>4. ASSUME NEW j \in 1..Len(up'[p]), up'[p][i].type = "join", up'[p][j].type = "join"
          PROVE  i = j
      <3>1. j + 1 \in 1..Len(up[p]) /\ up[p][j + 1].type = "join"
        BY <2>1, <2>4
      <3>2. i + 1 = j + 1
        BY <2>2, <2>3, <2>4, <3>1
      <3> QED
        BY <1>2, <2>1, <3>2
    <2>5. ASSUME NEW j \in i..Len(up'[p]), up'[p][i].type = "leave" PROVE ~Brings(p, up'[p][j])
      <3>1. j \in 1..Len(up'[p]) /\ j + 1 \in (i + 1)..Len(up[p])
        BY <1>2, <2>1
      <3> QED
        BY <2>1, <2>2, <2>3, <2>5, <3>1
    <2> QED
      BY <1>2, <2>2, <2>3, <2>4, <2>5
  <1> QED
    BY <1>1, <1>2

LEMMA ServedDownOrder ==
    ASSUME OnceInv, MaxJoins = 1, NEW p \in P!People, Served(p)
    PROVE  DownOrder'
  <1> SUFFICES ASSUME NEW q \in P!People, NEW i \in 1..Len(down'[q]), down'[q][i].type = "ack"
               PROVE  /\ \A j \in 1..Len(down'[q]) : down'[q][j].type = "ack" => i = j
                      /\ phase[q] # "out" => flow[q][1] = "ack"
    BY DEF DownOrder, Served, Frame
  <1>1. /\ Len(down[q]) \in Nat
        /\ \A j \in 1..Len(down'[q]) :
              \/ j \in 1..Len(down[q]) /\ down'[q][j] = down[q][j]
              \/ j = Len(down[q]) + 1 /\ Fits(p, q, down'[q][j])
    BY MailFacts DEF Served, OnceInv
  <1>2. ASSUME NEW j \in 1..Len(down'[q]), down'[q][j].type = "ack", Fits(p, q, down'[q][j])
        PROVE  /\ phase[q] # "out" => flow[q][1] = "ack"
               /\ \A k \in 1..Len(down[q]) : down[q][k].type # "ack"
    <2>1. q = p /\ up[p][1].type = "join"
      BY <1>2 DEF Fits
    <2> QED
      BY <2>1, JoinFacts DEF Served
  <1>3. ASSUME NEW k \in 1..Len(down[q]), down[q][k].type = "ack"
        PROVE  /\ phase[q] # "out" => flow[q][1] = "ack"
               /\ \A j \in 1..Len(down[q]) : down[q][j].type = "ack" => k = j
    BY <1>3 DEF OnceInv, DownOrder
  <1>4. CASE i \in 1..Len(down[q]) /\ down'[q][i] = down[q][i]
    <2>1. \A j \in 1..Len(down'[q]) : down'[q][j].type = "ack" => i = j
      BY <1>1, <1>2, <1>3, <1>4
    <2> QED
      BY <1>3, <1>4, <2>1
  <1>5. CASE i = Len(down[q]) + 1 /\ Fits(p, q, down'[q][i])
    <2>1. \A k \in 1..Len(down[q]) : down[q][k].type # "ack"
      BY <1>2, <1>5
    <2> QED
      BY <1>1, <1>2, <1>5, <2>1
  <1> QED
    BY <1>1, <1>4, <1>5

LEMMA ServedOffers ==
    ASSUME OnceInv, NEW p \in P!People, Served(p), NEW x \in P!People, NEW q \in P!People,
           Offering(x, q)'
    PROVE  \/ Offering(x, q)
           \/ x = p /\ up[p][1].type = "join" /\ phase[p] # "out" /\ q \in room \ {p}
           \/ q = p /\ x \in room /\ up[p][1].type \in {"join", "sdp", "ice"}
  <1>1. Typed
    BY DEF OnceInv
  <1>2. phase' = phase /\ task' = task /\ P!Shown(x)' = P!Shown(x)
    BY <1>1, FrameFacts DEF Served, Frame
  <1>3. \A i \in 1..Len(up'[x]) : \E j \in 1..Len(up[x]) : up'[x][i] = up[x][j]
    BY <1>1, UpFacts DEF Served
  <1>4. \A i \in 1..Len(down'[x]) :
            \/ i \in 1..Len(down[x]) /\ down'[x][i] = down[x][i]
            \/ i = Len(down[x]) + 1 /\ Fits(p, x, down'[x][i])
    BY <1>1, MailFacts DEF Served
  <1>5. ASSUME NEW i \in 1..Len(down'[x]), Names(down'[x][i], q), Fits(p, x, down'[x][i])
        PROVE  \/ x = p /\ up[p][1].type = "join" /\ q \in room \ {p}
               \/ q = p /\ x \in room /\ up[p][1].type \in {"join", "sdp", "ice"}
    BY <1>5 DEF Fits, Names, Shows
  <1>6. CASE \E i \in 1..Len(up'[x]) : Brings(x, up'[x][i]) /\ up'[x][i].to = q
    BY <1>3, <1>6 DEF Offering
  <1>7. CASE phase[x] # "out" /\ \E t \in task[x] : t.op = "offer" /\ t.who = q
    BY <1>7 DEF Offering
  <1>8. ASSUME phase[x] # "out", NEW i \in 1..Len(down'[x]),
               down'[x][i].type = "ack", q \in down'[x][i].who
        PROVE  Offering(x, q) \/ (x = p /\ up[p][1].type = "join" /\ q \in room \ {p})
    <2>1. CASE i \in 1..Len(down[x]) /\ down'[x][i] = down[x][i]
      BY <1>8, <2>1 DEF Offering
    <2>2. CASE Fits(p, x, down'[x][i])
      BY <1>8, <2>2 DEF Fits
    <2> QED
      BY <1>4, <2>1, <2>2
  <1>9. ASSUME phase[x] # "out", x \in Pages, Knows(x, q)'
        PROVE  \/ Offering(x, q)
               \/ x = p /\ up[p][1].type = "join" /\ q \in room \ {p}
               \/ q = p /\ x \in room /\ up[p][1].type \in {"join", "sdp", "ice"}
    <2>1. CASE q \in P!Shown(x)
      BY <1>9, <2>1 DEF Offering, Knows
    <2>2. ASSUME NEW i \in 1..Len(down'[x]), Names(down'[x][i], q),
                 i \in 1..Len(down[x]), down'[x][i] = down[x][i]
          PROVE  Offering(x, q)
      BY <1>9, <2>2 DEF Offering, Knows
    <2>3. q \in P!Shown(x) \/ \E i \in 1..Len(down'[x]) : Names(down'[x][i], q)
      BY <1>2, <1>9 DEF Knows
    <2> QED
      BY <1>4, <1>5, <2>1, <2>2, <2>3
  <1>10. \/ \E i \in 1..Len(up'[x]) : Brings(x, up'[x][i]) /\ up'[x][i].to = q
         \/ phase[x] # "out" /\ \E t \in task[x] : t.op = "offer" /\ t.who = q
         \/ phase[x] # "out" /\ \E i \in 1..Len(down'[x]) :
                                    down'[x][i].type = "ack" /\ q \in down'[x][i].who
         \/ phase[x] # "out" /\ x \in Pages /\ Knows(x, q)'
    BY <1>2 DEF Offering
  <1> QED
    BY <1>6, <1>7, <1>8, <1>9, <1>10

LEMMA ServedUnheard ==
    ASSUME OnceInv, MaxJoins = 1, NEW p \in P!People, Served(p), room' \subseteq room \cup {p},
           p \in room' => p \in room \/ up[p][1].type = "join"
    PROVE  Unheard'
  <1> SUFFICES ASSUME NEW q \in P!People, ToEnter(q)'
               PROVE  /\ q \notin room' /\ task[q] = {} /\ P!Shown(q)' = {} /\ ~joined[q]
                      /\ \A i \in 1..Len(up'[q]) : up'[q][i].type \notin {"sdp", "ice"}
                      /\ \A i \in 1..Len(down'[q]) : down'[q][i].type = "ended"
                      /\ \A r \in P!People :
                            /\ q \notin P!Shown(r)'
                            /\ \A i \in 1..Len(down'[r]) :
                                  ~Names(down'[r][i], q) /\ ~Parts(down'[r][i], q)
                            /\ ~Offering(r, q)'
                      /\ q \in Phones => /\ phase[q] # "in" /\ creating[q] = {}
                                         /\ \A r \in P!People : made[q][r] = 0
    BY DEF Unheard, Served, Frame
  <1>1. Typed /\ Frame(p)
    BY DEF OnceInv, Served
  <1>2. ToEnter(q)
    BY <1>1, FrameFacts
  <1>3. /\ q \notin room /\ task[q] = {} /\ P!Shown(q) = {} /\ ~joined[q]
        /\ \A i \in 1..Len(up[q]) : up[q][i].type \notin {"sdp", "ice"}
        /\ \A i \in 1..Len(down[q]) : down[q][i].type = "ended"
        /\ \A r \in P!People :
              /\ q \notin P!Shown(r)
              /\ \A i \in 1..Len(down[r]) : ~Names(down[r][i], q) /\ ~Parts(down[r][i], q)
              /\ ~Offering(r, q)
        /\ q \in Phones => /\ phase[q] # "in" /\ creating[q] = {}
                           /\ \A r \in P!People : made[q][r] = 0
    BY <1>2 DEF OnceInv, Unheard
  <1>4. up[p][1].type = "join" => q # p
    BY <1>1, JoinFacts
  <1>5. up[p][1].type \in {"sdp", "ice"} => q # p
    BY <1>1, <1>3, UpFacts
  <1>6. \A i \in 1..Len(up'[q]) : up'[q][i].type \notin {"sdp", "ice"}
    <2>1. \A i \in 1..Len(up'[q]) : \E j \in 1..Len(up[q]) : up'[q][i] = up[q][j]
      BY <1>1, UpFacts
    <2> QED
      BY <1>3, <2>1
  <1>7. \A i \in 1..Len(down'[q]) : down'[q][i].type = "ended"
    <2>1. ASSUME NEW i \in 1..Len(down'[q]), Fits(p, q, down'[q][i]) PROVE down'[q][i].type = "ended"
      BY <1>3, <1>4, <2>1 DEF Fits
    <2> QED
      BY <1>1, <1>3, <2>1, MailFacts DEF Served
  <1>8. ASSUME NEW r \in P!People, NEW i \in 1..Len(down'[r])
        PROVE  ~Names(down'[r][i], q) /\ ~Parts(down'[r][i], q)
    <2>1. CASE Fits(p, r, down'[r][i])
      BY <1>3, <1>4, <1>5, <2>1 DEF Fits, Shows, Names, Parts
    <2> QED
      BY <1>1, <1>3, <2>1, MailFacts DEF Served
  <1>9. \A r \in P!People : ~Offering(r, q)'
    BY <1>3, <1>4, <1>5, ServedOffers
  <1>10. \A r \in P!People : P!Shown(r)' = P!Shown(r)
    BY <1>1, FrameFacts
  <1> QED
    BY <1>3, <1>4, <1>6, <1>7, <1>8, <1>9, <1>10

LEMMA ServedOthers ==
    ASSUME OnceInv, MaxJoins = 1, NEW p \in P!People, Served(p)
    PROVE  Others'
  <1> SUFFICES ASSUME NEW q \in P!People
               PROVE  /\ q \notin P!Shown(q)'
                      /\ \A i \in 1..Len(down'[q]) : ~Shows(down'[q][i], q)
                      /\ \A t \in task'[q] : t.op = "offer" => t.who # q
                      /\ \A i \in 1..Len(up'[q]) : Brings(q, up'[q][i]) => up'[q][i].to # q
    BY DEF Others
  <1>1. Typed /\ Frame(p) /\ Told(p)
    BY DEF OnceInv, Served
  <1>2. /\ q \notin P!Shown(q)
        /\ \A i \in 1..Len(down[q]) : ~Shows(down[q][i], q)
        /\ \A t \in task[q] : t.op = "offer" => t.who # q
        /\ \A r \in P!People : \A i \in 1..Len(up[r]) : Brings(r, up[r][i]) => up[r][i].to # r
    BY DEF OnceInv, Others
  <1>3. P!Shown(q)' = P!Shown(q) /\ task' = task
    BY <1>1, FrameFacts DEF Frame
  <1>4. \A i \in 1..Len(up'[q]) : Brings(q, up'[q][i]) => up'[q][i].to # q
    <2>1. \A i \in 1..Len(up'[q]) : \E j \in 1..Len(up[q]) : up'[q][i] = up[q][j]
      BY <1>1, UpFacts
    <2> QED
      BY <1>2, <2>1
  <1>5. ASSUME NEW i \in 1..Len(down'[q]) PROVE ~Shows(down'[q][i], q)
    <2>1. CASE Fits(p, q, down'[q][i])
      <3>1. 1 \in 1..Len(up[p])
        BY <1>1, UpFacts
      <3> QED
        BY <1>2, <2>1, <3>1 DEF Fits, Shows, IsOffer, Brings
    <2> QED
      BY <1>1, <1>2, <2>1, MailFacts
  <1> QED
    BY <1>2, <1>3, <1>4, <1>5

\* What serving p comes to, for those who are in it.
Newcomer(p) ==
    /\ up[p][1].type = "join" /\ room' = room \cup {p}
    /\ \E m \in FromServer : /\ m.type = "ack" /\ m.ok /\ m.who = room \ {p}
                             /\ down'[p] = Append(down[p], m)
    /\ \A q \in P!People \ {p} :
          IF q \in room THEN down'[q] = Append(down[q], [type |-> "joined", who |-> p])
          ELSE down'[q] = down[q]
Leaver(p) ==
    /\ up[p][1].type = "leave" /\ p \in room /\ room' = room \ {p}
    /\ \A q \in P!People :
          IF q \in room' THEN down'[q] = Append(down[q], [type |-> "left", who |-> p])
          ELSE down'[q] = down[q]
Passed(p) ==
    /\ up[p][1].type # "join" /\ UNCHANGED room
    /\ \A q \in P!People :
          \/ down'[q] = down[q]
          \/ \E m \in FromServer :
                down'[q] = Append(down[q], m) /\ m.type \in {"sdp", "ice"} /\ Fits(p, q, m)

LEMMA SettledServed ==
    ASSUME Typed, NEW p \in P!People, Served(p), NEW q \in P!People, Settled(q)'
    PROVE  Settled(q) \/ (q = p /\ up[p][1].type = "join")
  <1>1. phase[q] # "out" /\ ~ToEnter(q)' /\ \A i \in 1..Len(down'[q]) : ~Dooms(down'[q][i])
    BY DEF Settled, Served, Frame
  <1>2. \A i \in 1..Len(down[q]) : ~Dooms(down[q][i])
    BY <1>1, MailFacts DEF Served
  <1>3. CASE ~ToEnter(q)
    BY <1>1, <1>2, <1>3 DEF Settled
  <1>4. CASE ToEnter(q)
    <2>1. q = p
      BY <1>1, <1>4, FrameFacts DEF Served
    <2>2. tried' = tried /\ flow' = flow
      BY DEF Served, Frame
    <2>3. PICK i \in 1..Len(up[p]) : up[p][i].type = "join"
      BY <1>1, <1>4, <2>1, <2>2 DEF ToEnter
    <2>4. /\ Len(up[p]) \in Nat /\ Len(up'[p]) = Len(up[p]) - 1
          /\ \A j \in 1..Len(up'[p]) : up'[p][j] = up[p][j + 1]
      BY UpFacts DEF Served
    <2>5. i # 1 => i - 1 \in 1..Len(up'[p]) /\ up'[p][i - 1] = up[p][i]
      BY <2>4
    <2>6. \A j \in 1..Len(up'[p]) : up'[p][j].type # "join"
      BY <1>1, <2>1 DEF ToEnter
    <2> QED
      BY <2>1, <2>3, <2>5, <2>6
  <1> QED
    BY <1>3, <1>4

LEMMA ServeKinds ==
    ASSUME OnceInv, NEW p \in P!People, P!Serve(p)
    PROVE  \/ \A q \in P!People : ~Settled(q)'
           \/ Newcomer(p) \/ Leaver(p) \/ Passed(p)
  <1> DEFINE h == up[p][1]
  <1>1. Typed /\ Served(p)
    BY ServeTells DEF OnceInv
  <1>2. Head(up[p]) = h /\ h \in ToServer
    BY <1>1, UpFacts DEF Served
  <1>3. room \subseteq P!People /\ (room # {} => door)
    BY <1>1 DEF Typed, P!TypeOK
  <1>4. ASSUME NEW q \in P!People, NEW m \in FromServer, Dooms(m), down'[q] = Append(down[q], m)
        PROVE  ~Settled(q)'
    <2>1. down[q] \in Seq(FromServer)
      BY <1>1 DEF Typed
    <2>2. Len(down'[q]) \in 1..Len(down'[q]) /\ down'[q][Len(down'[q])] = m
      BY <1>4, <2>1
    <2> QED
      BY <1>4, <2>2 DEF Settled
  <1>5. [type |-> "ended"] \in FromServer /\ Dooms([type |-> "ended"])
    BY DEF FromServer, Dooms
  <1>6. ASSUME \A q \in P!People : down'[q] = Append(down[q], [type |-> "ended"])
        PROVE  \A q \in P!People : ~Settled(q)'
    BY <1>4, <1>5, <1>6
  <1>7. \A q \in P!People : Settled(q)' => Settled(q) \/ (q = p /\ h.type = "join")
    BY <1>1, SettledServed
  <1>8. room = {} => \A q \in P!People : ~Settled(q)
    BY DEF OnceInv, SettledSee
  <1>9. CASE h.type = "join" /\ P!Join(p, h)
    <2> DEFINE ok == p \in Pages \/ door
               ack == [type |-> "ack", n |-> h.n, ok |-> ok, who |-> room \ {p}]
    <2>1. ack \in FromServer
      BY <1>1, <1>2, <1>3, <1>9 DEF FromServer, ToServer, Typed, P!TypeOK
    <2>2. /\ room' = IF ok THEN room \cup {p} ELSE room
          /\ down' = [q \in P!People |->
                 IF q = p THEN Append(down[q], ack)
                 ELSE IF ok /\ q \in room THEN Append(down[q], [type |-> "joined", who |-> p])
                 ELSE down[q]]
      BY <1>9 DEF P!Join
    <2>3. CASE ok
      <3>1. down'[p] = Append(down[p], ack) /\ ack.type = "ack" /\ ack.ok /\ ack.who = room \ {p}
        BY <2>2, <2>3
      <3>2. \A q \in P!People \ {p} :
                IF q \in room THEN down'[q] = Append(down[q], [type |-> "joined", who |-> p])
                ELSE down'[q] = down[q]
        BY <2>2, <2>3
      <3> HIDE DEF ack
      <3> QED
        BY <1>9, <2>1, <2>2, <2>3, <3>1, <3>2 DEF Newcomer
    <2>4. CASE ~ok
      <3>1. down'[p] = Append(down[p], ack) /\ Dooms(ack)
        BY <2>2, <2>4 DEF Dooms
      <3>2. ~Settled(p)'
        BY <1>4, <2>1, <3>1
      <3>3. room = {}
        BY <1>3, <2>4
      <3> QED
        BY <1>7, <1>8, <3>2, <3>3
    <2> QED
      BY <2>3, <2>4
  <1>10. CASE h.type = "leave" /\ P!Leave(p)
    <2>1. CASE room = {p}
      <3>1. \A q \in P!People : down'[q] = Append(down[q], [type |-> "ended"])
        BY <1>10, <2>1 DEF P!Leave, P!Tell
      <3> QED
        BY <1>6, <3>1
    <2>2. CASE p \in room /\ room # {p}
      BY <1>3, <1>10, <2>2 DEF P!Leave, P!Tell, Leaver
    <2>3. CASE p \notin room
      <3>1. room' = room /\ down' = down
        BY <1>10, <2>3 DEF P!Leave
      <3> QED
        BY <1>10, <3>1 DEF Passed
    <2> QED
      BY <2>1, <2>2, <2>3
  <1>11. CASE h.type = "end" /\ P!End
    <2>1. CASE door
      <3>1. \A q \in P!People : down'[q] = Append(down[q], [type |-> "ended"])
        BY <1>11, <2>1 DEF P!End, P!Tell
      <3> QED
        BY <1>6, <3>1
    <2>2. CASE ~door
      BY <1>3, <1>7, <1>8, <1>11, <2>2
    <2> QED
      BY <2>1, <2>2
  <1>12. CASE h.type = "sdp" /\ P!Relay(p, h)
    <2> DEFINE sdp == [type |-> "sdp", who |-> p, op |-> h.op, n |-> h.n]
    <2>1. sdp \in FromServer /\ sdp.type = "sdp"
      BY <1>2, <1>12 DEF FromServer, ToServer
    <2>2. \A q \in P!People :
              \/ q = h.to /\ q \in room /\ down'[q] = Append(down[q], sdp)
              \/ down'[q] = down[q]
      BY <1>12 DEF P!Relay, P!Tell
    <2>3. \A q \in P!People : q = h.to /\ q \in room => Fits(p, q, sdp)
      BY <1>12 DEF Fits
    <2>4. UNCHANGED room
      BY <1>12 DEF P!Relay
    <2> HIDE DEF sdp
    <2> QED
      BY <1>12, <2>1, <2>2, <2>3, <2>4 DEF Passed
  <1>13. CASE h.type = "ice" /\ P!RelayIce(p, h)
    <2> DEFINE ice == [type |-> "ice", who |-> p]
    <2>1. ice \in FromServer /\ ice.type = "ice"
      BY DEF FromServer
    <2>2. \A q \in P!People :
              \/ q = h.to /\ q \in room /\ down'[q] = Append(down[q], ice)
              \/ down'[q] = down[q]
      BY <1>13 DEF P!RelayIce, P!Tell
    <2>3. \A q \in P!People : q = h.to /\ q \in room => Fits(p, q, ice)
      BY <1>13 DEF Fits
    <2>4. UNCHANGED room
      BY <1>13 DEF P!RelayIce
    <2> HIDE DEF ice
    <2> QED
      BY <1>13, <2>1, <2>2, <2>3, <2>4 DEF Passed
  <1> QED
    BY <1>2, <1>9, <1>10, <1>11, <1>12, <1>13 DEF P!Serve

LEMMA ServedOfferers ==
    ASSUME OnceInv, MaxJoins = 1, NEW p \in P!People, Served(p),
           Newcomer(p) \/ Leaver(p) \/ Passed(p)
    PROVE  Offerers'
  <1> SUFFICES ASSUME NEW x \in P!People, NEW q \in P!People, Settled(q)', Offering(x, q)'
               PROVE  x \in room'
    BY DEF Offerers
  <1>1. Typed /\ Frame(p)
    BY DEF OnceInv, Served
  <1>2. Settled(q) \/ (q = p /\ up[p][1].type = "join")
    BY <1>1, SettledServed
  <1>3. \/ Offering(x, q) \/ (x = p /\ up[p][1].type = "join")
        \/ x \in room /\ up[p][1].type \in {"join", "sdp", "ice"}
    BY ServedOffers
  <1>4. ASSUME up[p][1].type = "join", q = p PROVE ~Offering(x, q)
    <2>1. ToEnter(p)
      BY <1>1, <1>4, JoinFacts
    <2> QED
      BY <1>4, <2>1 DEF OnceInv, Unheard
  <1>5. Settled(q) /\ Offering(x, q) => x \in room
    BY DEF OnceInv, Offerers
  <1>6. CASE Newcomer(p)
    BY <1>2, <1>3, <1>4, <1>5, <1>6 DEF Newcomer
  <1>7. CASE Leaver(p)
    <2>1. Settled(q) /\ Offering(x, q)
      BY <1>2, <1>3, <1>7 DEF Leaver
    <2>2. 1 \in 1..Len(up[p])
      BY <1>1, UpFacts
    <2>3. phase[p] = "out" /\ \A j \in 1..Len(up[p]) : ~Brings(p, up[p][j])
      BY <1>7, <2>2 DEF Leaver, OnceInv, UpOrder
    <2>4. x # p
      BY <2>1, <2>3 DEF Offering
    <2> QED
      BY <1>5, <1>7, <2>1, <2>4 DEF Leaver
  <1>8. CASE Passed(p)
    BY <1>2, <1>3, <1>5, <1>8 DEF Passed
  <1> QED
    BY <1>6, <1>7, <1>8

\* What is seen is still seen when one more message is under way.
LEMMA SeesMore ==
    ASSUME Typed, NEW q \in P!People, NEW x \in P!People, NEW m \in FromServer,
           down'[q] = Append(down[q], m), P!Shown(q)' = P!Shown(q), x \in room' <=> x \in room,
           ~Parts(m, x), Shows(m, x) => x \in room, Sees(q, x)
    PROVE  Sees(q, x)'
  <1>1. down[q] \in Seq(FromServer)
    BY DEF Typed
  <1>2. /\ Len(down[q]) \in Nat /\ Len(down'[q]) = Len(down[q]) + 1
        /\ \A i \in 1..Len(down[q]) : i \in 1..Len(down'[q]) /\ down'[q][i] = down[q][i]
        /\ \A i \in 1..Len(down'[q]) : i \in 1..Len(down[q]) \/ down'[q][i] = m
    BY <1>1
  <1>3. CASE x \in room
    <2>1. /\ x \in P!Shown(q) \/ Announced(q, x)
          /\ \A i \in 1..Len(down[q]) : ~Parts(down[q][i], x)
      BY <1>3 DEF Sees
    <2>2. Announced(q, x) => Announced(q, x)'
      BY <1>2 DEF Announced
    <2>3. \A i \in 1..Len(down'[q]) : ~Parts(down'[q][i], x)
      BY <1>2, <2>1
    <2> QED
      BY <1>3, <2>1, <2>2, <2>3 DEF Sees
  <1>4. CASE x \notin room
    <2> SUFFICES ASSUME ~(q \in Pages /\ x \in Phones),
                        x \in P!Shown(q)' \/ \E i \in 1..Len(down'[q]) : Shows(down'[q][i], x)
                 PROVE  TakenAway(q, x)'
      BY <1>4 DEF Sees
    <2>1. x \in P!Shown(q) \/ \E i \in 1..Len(down[q]) : Shows(down[q][i], x)
      BY <1>2, <1>4
    <2>2. PICK j \in 1..Len(down[q]) :
              Parts(down[q][j], x) /\ \A i \in j..Len(down[q]) : ~Shows(down[q][i], x)
      BY <1>4, <2>1 DEF Sees, TakenAway
    <2>3. j \in 1..Len(down'[q]) /\ Parts(down'[q][j], x)
      BY <1>2, <2>2
    <2>4. ASSUME NEW i \in j..Len(down'[q]) PROVE ~Shows(down'[q][i], x)
      <3>1. i \in 1..Len(down'[q]) /\ (i \in 1..Len(down[q]) => i \in j..Len(down[q]))
        BY <1>2
      <3> QED
        BY <1>2, <1>4, <2>2, <3>1
    <2> QED
      BY <2>3, <2>4 DEF TakenAway
  <1> QED
    BY <1>3, <1>4

LEMMA SeesStill ==
    ASSUME NEW q \in P!People, NEW x \in P!People, down'[q] = down[q],
           P!Shown(q)' = P!Shown(q), x \in room' <=> x \in room, Sees(q, x)
    PROVE  Sees(q, x)'
  <1>1. Announced(q, x)' = Announced(q, x) /\ TakenAway(q, x)' = TakenAway(q, x)
    BY DEF Announced, TakenAway
  <1> QED
    BY <1>1 DEF Sees

LEMMA SettledFacts ==
    ASSUME OnceInv, NEW p \in P!People, Served(p), NEW q \in P!People, Settled(q)
    PROVE  /\ q \in room
           /\ \A i \in 1..Len(down[q]) : down[q][i].type = "ack" => i = 1 /\ P!Shown(q) = {}
           /\ \A x \in P!People \ {q} : Sees(q, x)
           /\ P!Shown(q)' = P!Shown(q)
           /\ ~(q = p /\ up[p][1].type = "join")
           /\ \A i \in 1..Len(down'[q]) :
                 down'[q][i].type = "ack" => i = 1 /\ P!Shown(q)' = {}
  <1>1. Typed /\ Frame(p)
    BY DEF OnceInv, Served
  <1>2. /\ q \in room
        /\ \A i \in 1..Len(down[q]) : down[q][i].type = "ack" => i = 1 /\ P!Shown(q) = {}
        /\ \A x \in P!People \ {q} : Sees(q, x)
    BY DEF OnceInv, SettledSee
  <1>3. P!Shown(q)' = P!Shown(q)
    BY <1>1, FrameFacts
  <1>4. ~(q = p /\ up[p][1].type = "join")
    <2>1. ~ToEnter(q) /\ 1 \in 1..Len(up[p])
      BY <1>1, UpFacts DEF Settled
    <2> QED
      BY <2>1 DEF ToEnter
  <1>5. \A i \in 1..Len(down'[q]) : Fits(p, q, down'[q][i]) => down'[q][i].type # "ack"
    BY <1>4 DEF Fits
  <1> QED
    BY <1>1, <1>2, <1>3, <1>4, <1>5, MailFacts DEF Served

LEMMA ServedNewcomer ==
    ASSUME OnceInv, MaxJoins = 1, NEW p \in P!People, Served(p), Newcomer(p)
    PROVE  SettledSee'
  <1> SUFFICES ASSUME NEW q \in P!People, Settled(q)'
               PROVE  /\ q \in room'
                      /\ \A i \in 1..Len(down'[q]) :
                            down'[q][i].type = "ack" => i = 1 /\ P!Shown(q)' = {}
                      /\ \A x \in P!People \ {q} : Sees(q, x)'
    BY DEF SettledSee
  <1>1. Typed /\ Frame(p) /\ up[p][1].type = "join" /\ room' = room \cup {p}
    BY DEF OnceInv, Served, Newcomer
  <1>2. /\ ToEnter(p) /\ p \notin room
        /\ \A i \in 1..Len(down[p]) : down[p][i].type = "ended"
    BY <1>1, JoinFacts
  <1>3. CASE Settled(q)
    <2>1. /\ q \in room /\ q # p
          /\ \A x \in P!People \ {q} : Sees(q, x)
          /\ P!Shown(q)' = P!Shown(q)
          /\ \A i \in 1..Len(down'[q]) : down'[q][i].type = "ack" => i = 1 /\ P!Shown(q)' = {}
      BY <1>1, <1>3, SettledFacts
    <2> DEFINE new == [type |-> "joined", who |-> p]
    <2>2. new \in FromServer /\ down'[q] = Append(down[q], new)
      BY <2>1 DEF Newcomer, FromServer
    <2>3. ASSUME NEW x \in P!People \ {q}, x # p PROVE Sees(q, x)'
      <3>1. ~Parts(new, x) /\ ~Shows(new, x) /\ (x \in room' <=> x \in room)
        BY <1>1, <2>3 DEF Parts, Shows
      <3> HIDE DEF new
      <3> QED
        BY <1>1, <2>1, <2>2, <2>3, <3>1, SeesMore
    <2>4. Sees(q, p)'
      <3>1. down[q] \in Seq(FromServer)
        BY <1>1 DEF Typed
      <3>2. Shows(new, p) /\ new.type \notin {"sdp", "ice"} /\ ~Parts(new, p)
        BY DEF Shows, Parts
      <3>3. \A i \in 1..Len(down[q]) : ~Parts(down[q][i], p)
        BY <1>2 DEF OnceInv, Unheard
      <3> HIDE DEF new
      <3>4. /\ Len(down'[q]) \in 1..Len(down'[q]) /\ down'[q][Len(down'[q])] = new
            /\ \A i \in 1..Len(down'[q]) :
                  (i \in 1..Len(down[q]) /\ down'[q][i] = down[q][i]) \/ down'[q][i] = new
        BY <2>2, <3>1
      <3>5. Announced(q, p)'
        BY <3>2, <3>4 DEF Announced
      <3> QED
        BY <1>1, <3>2, <3>3, <3>4, <3>5 DEF Sees
    <2> QED
      BY <1>1, <2>1, <2>3, <2>4
  <1>4. CASE ~Settled(q)
    <2>1. q = p
      BY <1>1, <1>4, SettledServed
    <2>2. PICK m \in FromServer : /\ m.type = "ack" /\ m.who = room \ {p}
                                  /\ down'[p] = Append(down[p], m)
      BY DEF Newcomer
    <2>3. down[p] \in Seq(FromServer)
      BY <1>1 DEF Typed
    <2>4. \A i \in 1..Len(down'[p]) : down'[p][i].type # "ended"
      BY <2>1 DEF Settled, Dooms
    <2>5. Len(down[p]) = 0
      BY <1>1, <1>2, <2>3, <2>4, MailFacts DEF Served
    <2>6. Len(down'[p]) = 1 /\ down'[p][1] = m
      BY <2>2, <2>3, <2>5
    <2>7. P!Shown(p)' = {}
      BY <1>1, <1>2, FrameFacts DEF OnceInv, Unheard
    <2>8. ASSUME NEW x \in P!People \ {p} PROVE Sees(p, x)'
      <3>1. CASE x \in room
        <4>1. Shows(m, x) /\ ~Parts(m, x) /\ m.type \notin {"sdp", "ice"}
          BY <2>2, <2>8, <3>1 DEF Shows, Parts
        <4>2. Announced(p, x)'
          BY <2>6, <4>1 DEF Announced
        <4>3. \A i \in 1..Len(down'[p]) : ~Parts(down'[p][i], x)
          BY <2>6, <4>1
        <4> QED
          BY <1>1, <3>1, <4>2, <4>3 DEF Sees
      <3>2. CASE x \notin room
        <4>1. ~Shows(m, x) /\ x \notin room'
          BY <1>1, <2>2, <2>8, <3>2 DEF Shows
        <4>2. \A i \in 1..Len(down'[p]) : ~Shows(down'[p][i], x)
          BY <2>6, <4>1
        <4> QED
          BY <2>7, <4>1, <4>2 DEF Sees
      <3> QED
        BY <3>1, <3>2
    <2> QED
      BY <1>1, <2>1, <2>6, <2>7, <2>8
  <1> QED
    BY <1>3, <1>4

LEMMA ServedLeaver ==
    ASSUME OnceInv, NEW p \in P!People, Served(p), Leaver(p)
    PROVE  SettledSee'
  <1> SUFFICES ASSUME NEW q \in P!People, Settled(q)'
               PROVE  /\ q \in room'
                      /\ \A i \in 1..Len(down'[q]) :
                            down'[q][i].type = "ack" => i = 1 /\ P!Shown(q)' = {}
                      /\ \A x \in P!People \ {q} : Sees(q, x)'
    BY DEF SettledSee
  <1>1. Typed /\ Frame(p) /\ up[p][1].type = "leave" /\ room' = room \ {p}
    BY DEF OnceInv, Served, Leaver
  <1>2. Settled(q)
    BY <1>1, SettledServed
  <1>3. /\ q \in room
        /\ \A x \in P!People \ {q} : Sees(q, x)
        /\ P!Shown(q)' = P!Shown(q)
        /\ \A i \in 1..Len(down'[q]) : down'[q][i].type = "ack" => i = 1 /\ P!Shown(q)' = {}
    BY <1>2, SettledFacts
  <1>4. q # p
    <2>1. 1 \in 1..Len(up[p])
      BY <1>1, UpFacts
    <2>2. phase[p] = "out"
      BY <1>1, <2>1 DEF OnceInv, UpOrder
    <2> QED
      BY <1>2, <2>2 DEF Settled
  <1> DEFINE left == [type |-> "left", who |-> p]
  <1>5. left \in FromServer /\ down'[q] = Append(down[q], left)
    BY <1>1, <1>3, <1>4 DEF Leaver, FromServer
  <1>6. \A x : ~Shows(left, x) /\ (Parts(left, x) <=> x = p)
    BY DEF Shows, Parts
  <1> HIDE DEF left
  <1>7. ASSUME NEW x \in P!People \ {q}, x # p PROVE Sees(q, x)'
    BY <1>1, <1>3, <1>5, <1>6, <1>7, SeesMore
  <1>8. Sees(q, p)'
    <2>1. down[q] \in Seq(FromServer)
      BY <1>1 DEF Typed
    <2>2. /\ Len(down'[q]) \in 1..Len(down'[q]) /\ down'[q][Len(down'[q])] = left
          /\ \A i \in Len(down'[q])..Len(down'[q]) : i = Len(down'[q])
      BY <1>5, <2>1
    <2>3. TakenAway(q, p)'
      BY <1>6, <2>2 DEF TakenAway
    <2> QED
      BY <1>1, <2>3 DEF Sees
  <1> QED
    BY <1>1, <1>3, <1>4, <1>7, <1>8

LEMMA ServedPassed ==
    ASSUME OnceInv, NEW p \in P!People, Served(p), Passed(p)
    PROVE  SettledSee'
  <1> SUFFICES ASSUME NEW q \in P!People, Settled(q)'
               PROVE  /\ q \in room'
                      /\ \A i \in 1..Len(down'[q]) :
                            down'[q][i].type = "ack" => i = 1 /\ P!Shown(q)' = {}
                      /\ \A x \in P!People \ {q} : Sees(q, x)'
    BY DEF SettledSee
  <1>1. Typed /\ Frame(p) /\ up[p][1].type # "join" /\ room' = room
    BY DEF OnceInv, Served, Passed
  <1>2. Settled(q)
    BY <1>1, SettledServed
  <1>3. /\ q \in room
        /\ \A x \in P!People \ {q} : Sees(q, x)
        /\ P!Shown(q)' = P!Shown(q)
        /\ \A i \in 1..Len(down'[q]) : down'[q][i].type = "ack" => i = 1 /\ P!Shown(q)' = {}
    BY <1>2, SettledFacts
  <1>4. CASE down'[q] = down[q]
    BY <1>1, <1>3, <1>4, SeesStill
  <1>5. ASSUME NEW m \in FromServer, down'[q] = Append(down[q], m),
               m.type \in {"sdp", "ice"}, Fits(p, q, m),
               NEW x \in P!People \ {q}
        PROVE  Sees(q, x)'
    <2>1. ~Parts(m, x) /\ 1 \in 1..Len(up[p])
      BY <1>1, <1>5, UpFacts DEF Parts
    <2>2. ASSUME Shows(m, x) PROVE x \in room
      <3>1. x = p /\ Brings(p, up[p][1]) /\ up[p][1].to = q
        BY <1>5, <2>2 DEF Shows, Fits, IsOffer, Brings
      <3>2. Offering(p, q)
        BY <2>1, <3>1 DEF Offering
      <3> QED
        BY <1>2, <3>1, <3>2 DEF OnceInv, Offerers
    <2> QED
      BY <1>1, <1>3, <1>5, <2>1, <2>2, SeesMore
  <1> QED
    BY <1>1, <1>3, <1>4, <1>5 DEF Passed

LEMMA ServeKept ==
    ASSUME OnceInv, Typed', PageFlows', Numbers', MaxJoins = 1, NEW p \in P!People, P!Serve(p)
    PROVE  OnceInv'
  <1>1. Served(p) /\ Typed
    BY ServeTells DEF OnceInv
  <1>2. room' \subseteq room \cup {p} /\ (p \in room' => p \in room \/ up[p][1].type = "join")
    <2>1. Head(up[p]) = up[p][1]
      BY <1>1, UpFacts DEF Served
    <2> QED
      BY <2>1 DEF P!Serve, P!Join, P!Leave, P!End, P!Relay, P!RelayIce
  <1>3. Offerers' /\ SettledSee'
    <2>1. CASE \A q \in P!People : ~Settled(q)'
      BY <2>1 DEF Offerers, SettledSee
    <2> QED
      BY <1>1, <2>1, ServeKinds, ServedOfferers, ServedNewcomer, ServedLeaver, ServedPassed
  <1> QED
    BY <1>1, <1>2, <1>3, ServedPhases, ServedUpOrder, ServedDownOrder,
       ServedUnheard, ServedOthers DEF OnceInv
-----------------------------------------------------------------------------
\* What a person's own steps come to.
LEMMA OnceFacts ==
    ASSUME OnceInv, MaxJoins = 1, NEW p \in P!People
    PROVE  /\ Typed /\ PhaseOf(p) /\ P!Attempts = {1}
           /\ tried[p] \in {0, 1} /\ flow[p][1] \in {"none", "media", "ice", "ack"}
           /\ phase[p] \in {"out", "opening", "in"}
           /\ Len(up[p]) \in Nat /\ Len(down[p]) \in Nat
           /\ p \in Pages <=> p \notin Phones
           /\ tried[p] = 0 => ToEnter(p)
           /\ flow[p][1] \in {"media", "ice"} => ToEnter(p)
           /\ \A q \in P!People : made[p][q] \in Nat
  <1>1. Typed /\ PhaseOf(p)
    BY DEF OnceInv, Phases
  <1>2. P!Attempts = {1}
    BY DEF P!Attempts
  <1>3. p \in Pages <=> p \notin Phones
    BY MeshAssumption DEF P!People
  <1>4. /\ tried[p] = 0 => ToEnter(p)
        /\ flow[p][1] \in {"media", "ice"} => ToEnter(p)
    BY DEF ToEnter
  <1>5. \A q \in P!People : made[p][q] \in Nat
    BY <1>1, PeerFacts
  <1> QED
    BY <1>1, <1>2, <1>3, <1>4, <1>5, OnceTypes

LEMMA TearsFacts ==
    ASSUME Typed, NEW p \in P!People, P!Teardown(p)
    PROVE  /\ P!Shown(p)' = {} /\ ~joined'[p]
           /\ \A q \in P!People : peer'[p][q] = P!NoPeer
  <1>1. \A q \in P!People : peer'[p][q] = P!NoPeer
    BY DEF P!Teardown, Typed, P!TypeOK
  <1>2. members'[p] = {} /\ ~joined'[p]
    BY DEF P!Teardown, Typed, P!TypeOK
  <1> QED
    BY <1>1, <1>2 DEF P!Shown

LEMMA SaysNothing ==
    ASSUME Typed, NEW p \in P!People, up'[p] = up[p]
    PROVE  Says(p)
  <1>1. Len(up[p]) \in Nat
    BY DEF Typed
  <1> QED
    BY <1>1 DEF Says

LEMMA OutTurns ==
    ASSUME OnceInv, MaxJoins = 1, NEW p \in P!People, phase'[p] = "out", tried'[p] = tried[p],
           flow'[p][1] \in {flow[p][1], "none"},
           p \in Pages => /\ flow'[p][1] = "none" /\ creating'[p] = creating[p]
                          /\ \A q \in P!People : peer'[p][q] = P!NoPeer
    PROVE  Turns(p)
  BY OnceFacts DEF Turns, PhaseOf

LEMMA SameTurns ==
    ASSUME OnceInv, MaxJoins = 1, NEW p \in P!People, phase'[p] = phase[p], tried'[p] = tried[p],
           flow'[p][1] = flow[p][1], joined'[p] = joined[p],
           p \in Pages => /\ creating'[p] = creating[p]
                          /\ phase[p] = "out" => peer'[p] = peer[p]
    PROVE  Turns(p)
  BY OnceFacts DEF Turns, PhaseOf

LEMMA OutDeaf ==
    ASSUME Typed, NEW p \in P!People, down'[p] = down[p], phase'[p] = "out", task'[p] = task[p],
           P!Teardown(p)
    PROVE  Deaf(p)
  BY TearsFacts DEF Deaf

LEMMA PageMovesStep ==
    ASSUME OnceInv, MaxJoins = 1, NEW p \in P!People,
           \/ P!Start(p) \/ P!PageEnters(p) \/ P!PageRefused(p)
           \/ \E forAll \in BOOLEAN : P!PageLeaves(p, forAll)
    PROVE  Says(p) /\ Turns(p) /\ Deaf(p)
  <1>1. /\ Typed /\ PhaseOf(p) /\ P!Attempts = {1} /\ tried[p] \in {0, 1}
        /\ p \in Pages <=> p \notin Phones
        /\ tried[p] = 0 => ToEnter(p)
        /\ flow[p][1] \in {"media", "ice"} => ToEnter(p)
    BY OnceFacts
  <1>3. CASE P!Start(p)
    <2>1. tried[p] = 0 /\ up'[p] = up[p] /\ down' = down
      BY <1>1, <1>3 DEF P!Start
    <2>2. /\ tried'[p] = 1 /\ phase'[p] = "opening" /\ flow'[p][1] = "media"
          /\ joined' = joined /\ creating' = creating /\ task' = task
      BY <1>1, <1>3, <2>1 DEF P!Start, P!Flows, P!Still, Typed, P!TypeOK
    <2>3. P!Shown(p)' = P!Shown(p)
      BY <1>3 DEF P!Start, P!Shown
    <2>4. Turns(p)
      BY <1>1, <2>1, <2>2 DEF Turns, PhaseOf
    <2>5. Deaf(p)
      BY <1>1, <2>1, <2>2, <2>3 DEF Deaf
    <2> QED
      BY <1>1, <2>1, <2>4, <2>5, SaysNothing
  <1>4. CASE P!PageEnters(p)
    <2>1. tried[p] = 1 /\ phase[p] = "opening" /\ flow[p][1] = "media" /\ p \in Pages
      BY <1>1, <1>4 DEF P!PageEnters, PhaseOf
    <2>2. /\ tried' = tried /\ phase'[p] = "in" /\ flow'[p][1] = "ack"
          /\ joined' = joined /\ creating' = creating /\ task' = task /\ down' = down
      BY <1>1, <1>4, <2>1 DEF P!PageEnters, P!Flows, P!Still, Typed, P!TypeOK
    <2> DEFINE ms == <<[type |-> "join", n |-> 1]>>
    <2>3. ms \in Seq(ToServer) /\ P!Send(p, ms) /\ Len(ms) = 1 /\ ms[1].type = "join"
      BY <1>1, <1>4, <2>1 DEF P!PageEnters, ToServer
    <2> HIDE DEF ms
    <2>4. /\ Len(up[p]) \in Nat /\ Len(up'[p]) = Len(up[p]) + 1
          /\ \A i \in 1..Len(up[p]) : up'[p][i] = up[p][i]
          /\ \A i \in 1..Len(up'[p]) : i > Len(up[p]) => up'[p][i].type = "join"
      BY <1>1, <2>3, SaysOne
    <2>5. Says(p)
      BY <2>1, <2>2, <2>4 DEF Says
    <2>6. Turns(p)
      <3>1. Len(up'[p]) \in 1..Len(up'[p]) /\ up'[p][Len(up'[p])].type = "join"
        BY <2>4
      <3> QED
        BY <1>1, <2>1, <2>2, <3>1 DEF Turns, PhaseOf
    <2>7. P!Shown(p)' = P!Shown(p)
      BY <1>4 DEF P!PageEnters, P!Shown
    <2>8. Deaf(p)
      BY <1>1, <2>1, <2>2, <2>7 DEF Deaf
    <2> QED
      BY <2>5, <2>6, <2>8
  <1>5. CASE P!PageRefused(p)
    <2>1. tried[p] = 1 /\ phase[p] = "opening" /\ flow[p][1] = "media" /\ p \in Pages
      BY <1>1, <1>5 DEF P!PageRefused, PhaseOf
    <2>2. /\ tried' = tried /\ phase'[p] = "out" /\ flow'[p][1] = "none" /\ up' = up
          /\ joined' = joined /\ creating' = creating /\ task' = task /\ down' = down
      BY <1>1, <1>5, <2>1 DEF P!PageRefused, P!Gone, P!Flows, P!Still, Typed, P!TypeOK
    <2>3. P!Shown(p)' = P!Shown(p) /\ peer' = peer
      BY <1>5 DEF P!PageRefused, P!Shown
    <2>4. \A q \in P!People : peer[p][q] = P!NoPeer
      <3>1. P!Shown(p) = {}
        BY <1>1, <2>1 DEF OnceInv, Unheard
      <3> QED
        BY <2>1, <3>1 DEF P!Shown
    <2>5. Turns(p)
      BY <2>2, <2>3, <2>4, OutTurns
    <2>6. Deaf(p)
      BY <2>2, <2>3 DEF Deaf
    <2> QED
      BY <1>1, <2>2, <2>5, <2>6, SaysNothing
  <1>6. ASSUME NEW forAll \in BOOLEAN, P!PageLeaves(p, forAll)
        PROVE  Says(p) /\ Turns(p) /\ Deaf(p)
    <2>1. tried[p] = 1 /\ phase[p] # "out" /\ p \in Pages /\ P!Teardown(p)
      BY <1>1, <1>6 DEF P!PageLeaves, PhaseOf
    <2>2. /\ tried' = tried /\ phase'[p] = "out" /\ flow'[p][1] = "none"
          /\ creating' = creating /\ task' = task /\ down' = down
      BY <1>1, <1>6, <2>1 DEF P!PageLeaves, P!Gone, P!Flows, P!Still, Typed, P!TypeOK
    <2> DEFINE ms == (IF forAll THEN <<[type |-> "end"]>> ELSE <<>>)
                     \o (IF joined[p] THEN <<[type |-> "leave"]>> ELSE <<>>)
    <2>3. ms \in Seq(ToServer) /\ \A i \in 1..Len(ms) : ms[i].type \in {"end", "leave"}
      <3>1. /\ <<[type |-> "end"]>> \in Seq(ToServer) /\ <<[type |-> "leave"]>> \in Seq(ToServer)
            /\ <<>> \in Seq(ToServer)
        BY DEF ToServer
      <3> QED
        BY <3>1
    <2>4. P!Send(p, ms)
      BY <1>6 DEF P!PageLeaves
    <2> HIDE DEF ms
    <2>5. /\ Len(up[p]) \in Nat /\ Len(up'[p]) \in Nat /\ Len(up'[p]) >= Len(up[p])
          /\ \A i \in 1..Len(up[p]) : up'[p][i] = up[p][i]
          /\ \A i \in 1..Len(up'[p]) : i > Len(up[p]) => up'[p][i].type \in {"end", "leave"}
      BY <1>1, <2>3, <2>4, SaysFew
    <2>6. Says(p)
      BY <2>1, <2>2, <2>5 DEF Says
    <2>7. Turns(p)
      BY <1>1, <2>1, <2>2, OutTurns, TearsFacts
    <2>8. Deaf(p)
      BY <1>1, <2>1, <2>2, OutDeaf
    <2> QED
      BY <2>6, <2>7, <2>8
  <1> QED
    BY <1>3, <1>4, <1>5, <1>6

LEMMA PhoneMovesStep ==
    ASSUME OnceInv, MaxJoins = 1, NEW p \in P!People,
           \/ \E a \in P!Attempts : \/ P!PhoneMedia(p, a) \/ P!PhoneRefused(p, a)
                                   \/ P!PhoneAsks(p, a) \/ P!PhoneTimesOut(p, a)
           \/ P!PhoneLeaves(p)
    PROVE  Says(p) /\ Turns(p) /\ Deaf(p)
  <1>1. /\ Typed /\ PhaseOf(p) /\ P!Attempts = {1} /\ tried[p] \in {0, 1}
        /\ phase[p] \in {"out", "opening", "in"}
        /\ p \in Pages <=> p \notin Phones
        /\ tried[p] = 0 => ToEnter(p)
        /\ flow[p][1] \in {"media", "ice"} => ToEnter(p)
    BY OnceFacts
  <1>2. creating' = creating /\ task' = task /\ tried' = tried /\ down' = down
    BY DEF P!PhoneMedia, P!PhoneRefused, P!PhoneAsks, P!PhoneTimesOut, P!PhoneLeaves, P!Still
  <1>3. p \in Phones /\ p \notin Pages
    BY <1>1 DEF P!PhoneMedia, P!PhoneRefused, P!PhoneAsks, P!PhoneTimesOut, P!PhoneLeaves
  <1>4. CASE P!PhoneMedia(p, 1)
    <2>1. flow[p][1] = "media" /\ up' = up /\ phase' = phase /\ joined' = joined
      BY <1>4 DEF P!PhoneMedia
    <2>2. flow'[p][1] = IF phase[p] = "opening" THEN "ice" ELSE "none"
      BY <1>1, <1>4 DEF P!PhoneMedia, P!Flows, Typed, P!TypeOK
    <2>3. P!Shown(p)' = P!Shown(p)
      BY <1>4 DEF P!PhoneMedia, P!Shown
    <2>4. ToEnter(p)
      BY <1>1, <2>1
    <2>5. phase[p] # "in"
      BY <1>3, <2>4 DEF OnceInv, Unheard
    <2>6. Turns(p)
      BY <1>1, <1>2, <1>3, <2>1, <2>2, <2>5 DEF Turns, PhaseOf
    <2>7. Deaf(p)
      BY <1>2, <2>1, <2>3, <2>4 DEF Deaf
    <2> QED
      BY <1>1, <1>2, <2>1, <2>6, <2>7, SaysNothing
  <1>5. CASE P!PhoneRefused(p, 1)
    <2>1. P!Teardown(p) /\ up' = up
      BY <1>5 DEF P!PhoneRefused, P!Fail
    <2>2. phase'[p] = "out" /\ flow'[p][1] = "none"
      BY <1>1, <1>5 DEF P!PhoneRefused, P!Fail, P!Gone, P!Flows, Typed, P!TypeOK
    <2> QED
      BY <1>1, <1>2, <1>3, <2>1, <2>2, OutTurns, OutDeaf, SaysNothing
  <1>6. CASE P!PhoneAsks(p, 1)
    <2>1. flow[p][1] = "ice" /\ phase' = phase /\ joined' = joined
      BY <1>6 DEF P!PhoneAsks
    <2>2. flow'[p][1] = "ack"
      BY <1>1, <1>6 DEF P!PhoneAsks, P!Flows, Typed, P!TypeOK
    <2> DEFINE ms == <<[type |-> "join", n |-> 1]>>
    <2>3. ms \in Seq(ToServer) /\ P!Send(p, ms) /\ Len(ms) = 1 /\ ms[1].type = "join"
      BY <1>1, <1>6 DEF P!PhoneAsks, ToServer
    <2> HIDE DEF ms
    <2>4. /\ Len(up[p]) \in Nat /\ Len(up'[p]) = Len(up[p]) + 1
          /\ \A i \in 1..Len(up[p]) : up'[p][i] = up[p][i]
          /\ \A i \in 1..Len(up'[p]) : i > Len(up[p]) => up'[p][i].type = "join"
      BY <1>1, <2>3, SaysOne
    <2>5. Says(p)
      BY <2>1, <2>2, <2>4 DEF Says
    <2>6. ToEnter(p)
      BY <1>1, <2>1
    <2>7. phase[p] # "in"
      BY <1>3, <2>6 DEF OnceInv, Unheard
    <2>8. Turns(p)
      <3>1. Len(up'[p]) \in 1..Len(up'[p]) /\ up'[p][Len(up'[p])].type = "join"
        BY <2>4
      <3> QED
        BY <1>1, <1>2, <1>3, <2>1, <2>2, <2>7, <3>1 DEF Turns, PhaseOf
    <2>9. P!Shown(p)' = P!Shown(p)
      BY <1>6 DEF P!PhoneAsks, P!Shown
    <2>10. Deaf(p)
      BY <1>2, <2>1, <2>6, <2>9 DEF Deaf
    <2> QED
      BY <1>2, <2>5, <2>8, <2>10
  <1>7. CASE P!PhoneTimesOut(p, 1)
    <2>1. flow[p][1] = "ack" /\ up' = up
      BY <1>7 DEF P!PhoneTimesOut
    <2>2. flow'[p][1] = "none"
      BY <1>1, <1>7 DEF P!PhoneTimesOut, P!Flows, Typed, P!TypeOK
    <2>3. CASE phase[p] = "opening"
      <3>1. P!Teardown(p) /\ phase'[p] = "out"
        BY <1>1, <1>7, <2>3 DEF P!PhoneTimesOut, P!Fail, P!Gone, Typed, P!TypeOK
      <3> QED
        BY <1>1, <1>2, <1>3, <2>1, <2>2, <3>1, OutTurns, OutDeaf, SaysNothing
    <2>4. CASE phase[p] # "opening"
      <3>1. phase[p] = "out"
        BY <1>1, <1>3, <2>1, <2>4 DEF PhaseOf
      <3>2. phase' = phase /\ joined' = joined /\ P!Shown(p)' = P!Shown(p)
        BY <1>7, <2>4 DEF P!PhoneTimesOut, P!Shown
      <3>3. Deaf(p)
        BY <1>2, <3>1, <3>2 DEF Deaf
      <3> QED
        BY <1>1, <1>2, <1>3, <2>1, <2>2, <3>1, <3>2, <3>3, OutTurns, SaysNothing
    <2> QED
      BY <2>3, <2>4
  <1>8. CASE P!PhoneLeaves(p)
    <2>1. P!Teardown(p) /\ flow' = flow /\ phase[p] # "out"
      BY <1>8 DEF P!PhoneLeaves
    <2>2. phase'[p] = "out"
      BY <1>1, <1>8 DEF P!PhoneLeaves, P!Gone, Typed, P!TypeOK
    <2> DEFINE ms == <<[type |-> "leave"]>>
    <2>3. ms \in Seq(ToServer) /\ P!Send(p, ms) /\ Len(ms) = 1 /\ ms[1].type = "leave"
      BY <1>8 DEF P!PhoneLeaves, ToServer
    <2> HIDE DEF ms
    <2>4. /\ Len(up[p]) \in Nat /\ Len(up'[p]) = Len(up[p]) + 1
          /\ \A i \in 1..Len(up[p]) : up'[p][i] = up[p][i]
          /\ \A i \in 1..Len(up'[p]) : i > Len(up[p]) => up'[p][i].type = "leave"
      BY <1>1, <2>3, SaysOne
    <2>5. Says(p)
      BY <2>1, <2>2, <2>4 DEF Says
    <2> QED
      BY <1>1, <1>2, <1>3, <2>1, <2>2, <2>5, OutTurns, OutDeaf
  <1> QED
    BY <1>1, <1>2, <1>4, <1>5, <1>6, <1>7, <1>8

LEMMA TricklesStep ==
    ASSUME OnceInv, MaxJoins = 1, NEW p \in P!People, NEW q \in P!People, P!Trickles(p, q)
    PROVE  Says(p) /\ Turns(p) /\ Deaf(p)
  <1>1. /\ Typed /\ PhaseOf(p) /\ (p \in Pages <=> p \notin Phones)
        /\ p # q /\ P!Seeks(p, q)
    BY OnceFacts DEF P!Trickles
  <1>2. UNCHANGED <<down, phase, tried, flow, joined, peer, members, creating, task>>
    BY DEF P!Trickles
  <1>3. P!Shown(p)' = P!Shown(p)
    BY <1>2 DEF P!Shown
  <1>4. Deaf(p)
    BY <1>2, <1>3 DEF Deaf
  <1>5. Turns(p)
    BY <1>2, SameTurns
  <1>6. peer[p][q].st \in {"offered", "stable"} => peer[p][q] # P!NoPeer
    BY DEF P!NoPeer
  <1>7. p \in Pages => phase[p] # "out" /\ q \in P!Shown(p)
    BY <1>1, <1>6 DEF P!Seeks, P!Shown, PhaseOf
  <1>8. p \notin Pages => made[p][q] # 0
    BY <1>1, <1>6, PeerFacts DEF P!Seeks, Latest
  <1> DEFINE ms == <<[type |-> "ice", to |-> q]>>
  <1>9. ms \in Seq(ToServer) /\ P!Send(p, ms) /\ Len(ms) = 1 /\ ms[1].type = "ice" /\ ms[1].to = q
    BY DEF P!Trickles, ToServer
  <1> HIDE DEF ms
  <1>10. /\ Len(up[p]) \in Nat /\ Len(up'[p]) = Len(up[p]) + 1
         /\ \A i \in 1..Len(up[p]) : up'[p][i] = up[p][i]
         /\ \A i \in 1..Len(up'[p]) : i > Len(up[p]) =>
                up'[p][i].type = "ice" /\ up'[p][i].to = q
    BY <1>1, <1>9, SaysOne
  <1>11. Says(p)
    BY <1>7, <1>8, <1>10 DEF Says
  <1> QED
    BY <1>4, <1>5, <1>11

\* A peer connection that is offered or answered is there before and after.
LEMMA Respelt ==
    ASSUME Typed, NEW p \in P!People, NEW q \in P!People, NEW pc, pc.st # "none",
           peer' = [peer EXCEPT ![p][q] = pc]
    PROVE  \A r \in P!People : peer'[p][r] = P!NoPeer <=> r # q /\ peer[p][r] = P!NoPeer
  <1>1. peer \in [P!People -> [P!People -> P!Peer]]
    BY DEF Typed, P!TypeOK
  <1>2. \A r \in P!People : peer'[p][r] = IF r = q THEN pc ELSE peer[p][r]
    BY <1>1
  <1>3. pc # P!NoPeer
    BY DEF P!NoPeer
  <1> QED
    BY <1>2, <1>3

LEMMA DescribedStep ==
    ASSUME OnceInv, MaxJoins = 1, NEW p \in P!People, NEW t \in task[p], P!Described(p, t)
    PROVE  Says(p) /\ Turns(p) /\ Deaf(p)
  <1>1. /\ Typed /\ PhaseOf(p)
        /\ p \in Pages <=> p \notin Phones
    BY OnceFacts
  <1>2. t \in P!Task /\ t.who \in P!People /\ t.n \in Nat /\ t.n # 0
    BY <1>1 DEF Typed, P!TypeOK, P!Task, P!Described
  <1> DEFINE st == IF t.op = "offer" THEN "offered" ELSE "stable"
             new == [peer[p][t.who] EXCEPT !.st = st]
  <1>3. /\ down' = down /\ phase' = phase /\ tried' = tried /\ flow' = flow /\ joined' = joined
        /\ creating' = creating /\ members' = members
        /\ task'[p] \subseteq task[p]
    BY <1>1 DEF P!Described, Typed, P!TypeOK
  <1>4. \/ peer' = peer /\ up' = up
        \/ /\ peer[p][t.who].n = t.n /\ peer' = [peer EXCEPT ![p][t.who] = new]
           /\ \/ up' = up
              \/ /\ P!Send(p, <<[type |-> "sdp", to |-> t.who, op |-> t.op, n |-> t.n]>>)
                 /\ p \in Phones /\ t.op = "offer" => phase[p] # "out"
    BY <1>1, <1>2 DEF P!Described, Typed, P!TypeOK
  <1>5. peer[p][t.who].n = t.n => peer[p][t.who] # P!NoPeer
    BY <1>2 DEF P!NoPeer
  <1>6. new.st # "none"
    <2>1. peer[p][t.who] \in P!Peer
      BY <1>1, <1>2, PeerFacts
    <2> QED
      BY <2>1 DEF P!Peer
  <1> HIDE DEF new
  <1>7. \A r \in P!People : peer'[p][r] = P!NoPeer <=> peer[p][r] = P!NoPeer
    BY <1>1, <1>2, <1>4, <1>5, <1>6, Respelt
  <1>8. P!Shown(p)' = P!Shown(p)
    BY <1>3, <1>7 DEF P!Shown
  <1>9. Deaf(p)
    BY <1>3, <1>8 DEF Deaf
  <1>10. Turns(p)
    BY <1>1, <1>3, <1>7 DEF Turns, PhaseOf
  <1>11. Says(p)
    <2> DEFINE m == [type |-> "sdp", to |-> t.who, op |-> t.op, n |-> t.n]
    <2>1. m \in ToServer /\ m.type = "sdp" /\ m.op = t.op /\ m.to = t.who
      BY <1>2 DEF ToServer, P!Task
    <2>2. \/ up' = up
          \/ P!Send(p, <<m>>) /\ (t.op = "offer" => phase[p] # "out")
      <3>1. p \in Pages /\ peer[p][t.who] # P!NoPeer => phase[p] # "out"
        BY <1>1, <1>2 DEF PhaseOf
      <3> QED
        BY <1>1, <1>4, <1>5, <3>1
    <2> HIDE DEF m
    <2>3. CASE up' = up
      BY <1>1, <2>3, SaysNothing
    <2>4. CASE P!Send(p, <<m>>) /\ (t.op = "offer" => phase[p] # "out")
      <3>1. <<m>> \in Seq(ToServer) /\ Len(<<m>>) = 1 /\ <<m>>[1] = m
        BY <2>1
      <3>2. /\ Len(up[p]) \in Nat /\ Len(up'[p]) = Len(up[p]) + 1
            /\ \A i \in 1..Len(up[p]) : up'[p][i] = up[p][i]
            /\ \A i \in 1..Len(up'[p]) : i > Len(up[p]) => up'[p][i] = m
        BY <1>1, <2>4, <3>1, SaysOne
      <3> QED
        BY <2>1, <2>4, <3>2 DEF Says
    <2> QED
      BY <2>2, <2>3, <2>4
  <1> QED
    BY <1>9, <1>10, <1>11

LEMMA CreatedStep ==
    ASSUME OnceInv, MaxJoins = 1, NEW p \in P!People, NEW q \in P!People, NEW a \in P!Attempts,
           P!PhoneCreated(p, q, a)
    PROVE  Says(p) /\ Turns(p) /\ Deaf(p)
  <1>1. /\ Typed /\ PhaseOf(p)
        /\ p \in Pages <=> p \notin Phones
    BY OnceFacts
  <1>2. p \in Phones /\ p \notin Pages
    BY <1>1 DEF P!PhoneCreated, PhaseOf
  <1>3. /\ down' = down /\ phase' = phase /\ tried' = tried /\ flow' = flow /\ joined' = joined
        /\ members' = members /\ up' = up
    BY DEF P!PhoneCreated, P!PhoneStays
  <1>4. P!Shown(p)' = P!Shown(p)
    BY <1>2, <1>3 DEF P!Shown
  <1>5. Deaf(p)
    BY <1>1, <1>3, <1>4, CreatedTasks DEF Deaf
  <1> QED
    BY <1>1, <1>2, <1>3, <1>5, SameTurns, SaysNothing

\* What a person hears.
LEMMA HearsHead ==
    ASSUME Typed, NEW p \in P!People, NEW type, P!Takes(p, type)
    PROVE  LET m == Head(down[p]) IN
           /\ m \in FromServer /\ m.type = type /\ down[p] # <<>> /\ down'[p] = Tail(down[p])
           /\ 1 \in 1..Len(down[p]) /\ m = down[p][1]
  <1>1. down[p] \in Seq(FromServer) /\ down[p] # <<>> /\ down'[p] = Tail(down[p])
    BY DEF Typed, P!Takes
  <1> QED
    BY <1>1 DEF P!Takes

\* Somebody out hears without effect, or leaves by what it hears.
LEMMA HeardOut ==
    ASSUME Typed, NEW p \in P!People, NEW m \in FromServer,
           down[p] # <<>>, m = Head(down[p]), down'[p] = Tail(down[p]), up'[p] = up[p],
           phase'[p] = "out", task'[p] = task[p],
           P!Teardown(p) \/ UNCHANGED <<peer, members, joined>>
    PROVE  Heard(p, m)
  <1>1. P!Shown(p)' \subseteq P!Shown(p) /\ (joined'[p] => joined[p])
    BY TearsFacts DEF P!Shown
  <1> QED
    BY <1>1 DEF Heard

LEMMA CreatesPeers ==
    ASSUME Typed, NEW p \in P!People, NEW who \in SUBSET P!People, P!Creates(p, who)
    PROVE  \A q \in P!People : peer'[p][q] # P!NoPeer <=> q \in who \/ peer[p][q] # P!NoPeer
  <1> DEFINE new == {q \in who : peer[p][q] = P!NoPeer}
  <1>1. peer' = [peer EXCEPT ![p] = [q \in P!People |-> IF q \in new THEN P!Fresh(p, q) ELSE @[q]]]
    BY DEF P!Creates
  <1>2. \A q \in P!People : peer'[p][q] = IF q \in new THEN P!Fresh(p, q) ELSE peer[p][q]
    BY <1>1 DEF Typed, P!TypeOK
  <1>3. \A q \in P!People : P!Fresh(p, q) # P!NoPeer
    <2>1. \A q \in P!People : P!Fresh(p, q).st = "new" /\ P!NoPeer.st = "none"
      BY DEF P!Fresh, P!NoPeer
    <2> QED
      BY <2>1
  <1> QED
    BY <1>2, <1>3

LEMMA PageAckStep ==
    ASSUME OnceInv, MaxJoins = 1, NEW p \in P!People, P!PageTakesAck(p)
    PROVE  Turns(p) /\ Heard(p, Head(down[p]))
  <1> DEFINE m == Head(down[p])
  <1>1. /\ Typed /\ PhaseOf(p) /\ P!Attempts = {1} /\ p \in Pages
        /\ p \in Pages <=> p \notin Phones
        /\ phase[p] \in {"out", "opening", "in"} /\ tried[p] \in {0, 1}
    BY OnceFacts DEF P!PageTakesAck
  <1>2. /\ m \in FromServer /\ m.type = "ack" /\ down[p] # <<>> /\ down'[p] = Tail(down[p])
        /\ 1 \in 1..Len(down[p]) /\ m = down[p][1]
    BY <1>1, HearsHead DEF P!PageTakesAck
  <1>3. m.n = 1 /\ m.ok \in BOOLEAN /\ m.who \subseteq P!People
    BY <1>1, TakesTyped DEF P!PageTakesAck
  <1>4. phase[p] # "out" => flow[p][1] = "ack"
    BY <1>2 DEF OnceInv, DownOrder
  <1>5. flow[p][1] = "ack" => phase[p] = "in"
    BY <1>1 DEF OnceInv, PageFlows
  <1>6. up' = up /\ tried' = tried /\ creating' = creating
    BY DEF P!PageTakesAck
  <1>7. CASE flow[p][1] # "ack"
    <2>1. UNCHANGED <<phase, flow, joined, local, running, peer, made, task, members>>
      BY <1>3, <1>7 DEF P!PageTakesAck
    <2>2. phase'[p] = "out"
      BY <1>4, <1>7, <2>1
    <2> QED
      BY <1>1, <1>2, <1>6, <2>1, <2>2, HeardOut, SameTurns
  <1>8. CASE flow[p][1] = "ack" /\ ~m.ok
    <2>1. P!Teardown(p) /\ P!Gone(p) /\ P!Flows(p, 1, "none") /\ UNCHANGED task
      BY <1>3, <1>8 DEF P!PageTakesAck
    <2>2. phase'[p] = "out" /\ flow'[p][1] = "none"
      BY <1>1, <2>1 DEF P!Gone, P!Flows, Typed, P!TypeOK
    <2> QED
      BY <1>1, <1>2, <1>6, <2>1, <2>2, HeardOut, OutTurns, TearsFacts
  <1>9. CASE flow[p][1] = "ack" /\ m.ok
    <2>1. /\ joined' = [joined EXCEPT ![p] = TRUE] /\ P!Flows(p, 1, "none")
          /\ P!Creates(p, m.who) /\ P!Tasks(p, P!Offers(m.who, peer'[p]))
          /\ UNCHANGED <<phase, local, running, members>>
      BY <1>3, <1>9 DEF P!PageTakesAck
    <2>2. joined'[p] /\ flow'[p][1] = "none" /\ phase'[p] = "in" /\ phase[p] = "in"
      BY <1>1, <1>5, <1>9, <2>1 DEF P!Flows, Typed, P!TypeOK
    <2>3. Turns(p)
      BY <1>1, <1>6, <1>9, <2>2 DEF Turns, PhaseOf
    <2>4. \A q \in P!People : peer'[p][q] # P!NoPeer <=> q \in m.who \/ peer[p][q] # P!NoPeer
      BY <1>1, <1>3, <2>1, CreatesPeers
    <2>5. \A q : Shows(m, q) <=> q \in m.who
      BY <1>2 DEF Shows
    <2>6. P!Shown(p)' = P!Shown(p) \cup {q \in P!People : Shows(m, q)}
      BY <1>1, <2>4, <2>5 DEF P!Shown
    <2>7. \A t \in task'[p] : t \in task[p] \/ (t.op = "offer" /\ t.who \in m.who)
      <3>1. task'[p] = task[p] \cup P!Offers(m.who, peer'[p])
        BY <1>1, <2>1 DEF P!Tasks, Typed, P!TypeOK
      <3> QED
        BY <3>1 DEF P!Offers, P!Offer
    <2>8. ~Dooms(m) /\ \A q : ~Parts(m, q)
      BY <1>2, <1>9 DEF Dooms, Parts
    <2>9. Heard(p, m)
      BY <1>2, <1>6, <2>2, <2>6, <2>7, <2>8 DEF Heard
    <2> QED
      BY <2>3, <2>9
  <1> QED
    BY <1>3, <1>7, <1>8, <1>9

LEMMA PageNewsStep ==
    ASSUME OnceInv, MaxJoins = 1, NEW p \in P!People,
           P!PageTakesJoined(p) \/ P!PageTakesIce(p) \/ P!PageTakesLeft(p)
    PROVE  Turns(p) /\ Heard(p, Head(down[p]))
  <1> DEFINE m == Head(down[p])
  <1>1. /\ Typed /\ PhaseOf(p) /\ p \in Pages
        /\ p \in Pages <=> p \notin Phones
    BY OnceFacts DEF P!PageTakesJoined, P!PageTakesIce, P!PageTakesLeft, P!PageHears
  <1>2. /\ m \in FromServer /\ m.type \in {"joined", "ice", "left"}
        /\ down[p] # <<>> /\ down'[p] = Tail(down[p])
        /\ m.who \in P!People
        /\ P!PageTakesJoined(p) => m.type = "joined"
        /\ P!PageTakesIce(p) => m.type = "ice"
        /\ P!PageTakesLeft(p) => m.type = "left"
    BY <1>1, HearsHead, TakesTyped
    DEF P!PageTakesJoined, P!PageTakesIce, P!PageTakesLeft, P!PageHears
  <1>3. /\ up' = up /\ tried' = tried /\ creating' = creating /\ task' = task /\ phase' = phase
        /\ flow' = flow /\ joined' = joined
    BY DEF P!PageTakesJoined, P!PageTakesIce, P!PageTakesLeft, P!Unmoved
  <1>4. ~Dooms(m)
    BY <1>2 DEF Dooms
  <1>5. CASE P!PageTakesJoined(p) \/ P!PageTakesIce(p)
    <2> DEFINE who == IF phase[p] = "out" THEN {} ELSE {m.who}
    <2>1. who \in SUBSET P!People /\ P!Creates(p, who)
      BY <1>2, <1>5 DEF P!PageTakesJoined, P!PageTakesIce
    <2> HIDE DEF who
    <2>2. \A q \in P!People : peer'[p][q] # P!NoPeer <=> q \in who \/ peer[p][q] # P!NoPeer
      BY <1>1, <2>1, CreatesPeers
    <2>3. P!Shown(p)' = P!Shown(p) \cup who
      BY <1>1, <2>1, <2>2 DEF P!Shown
    <2>4. /\ \A q : (Names(m, q) <=> q = m.who) /\ ~Parts(m, q)
          /\ \A q : Shows(m, q) <=> q = m.who /\ (m.type = "joined" \/ q \in Pages)
      BY <1>2, <1>5 DEF Shows, Names, Parts
    <2>5. phase[p] = "out" => \A q \in P!People : peer'[p][q] = P!NoPeer
      BY <1>1, <2>2 DEF PhaseOf, who
    <2>6. Turns(p)
      BY <1>1, <1>3, <2>5, OnceFacts DEF Turns, PhaseOf
    <2>7. Heard(p, m)
      <3>1. P!Shown(p)' \subseteq P!Shown(p) \cup
                {q \in P!People : Shows(m, q) \/ (p \in Pages /\ q \in Phones /\ Names(m, q))}
        BY <1>1, <1>2, <2>3, <2>4 DEF who, P!People
      <3> QED
        BY <1>2, <1>3, <1>4, <2>3, <2>4, <3>1 DEF Heard, who
    <2> QED
      BY <2>6, <2>7
  <1>6. CASE P!PageTakesLeft(p)
    <2>1. \A q \in P!People : peer'[p][q] = IF q = m.who THEN P!NoPeer ELSE peer[p][q]
      BY <1>1, <1>2, <1>6 DEF P!PageTakesLeft, Typed, P!TypeOK
    <2>2. P!Shown(p)' = P!Shown(p) \ {m.who}
      BY <1>1, <2>1 DEF P!Shown
    <2>3. \A q : ~Shows(m, q) /\ (Parts(m, q) <=> q = m.who)
      BY <1>2, <1>6 DEF Shows, Parts
    <2>4. Turns(p)
      BY <1>1, <1>3, <2>1, OnceFacts DEF Turns, PhaseOf
    <2>5. Heard(p, m)
      BY <1>2, <1>3, <1>4, <2>2, <2>3 DEF Heard
    <2> QED
      BY <2>4, <2>5
  <1> QED
    BY <1>5, <1>6

LEMMA EndedStep ==
    ASSUME OnceInv, MaxJoins = 1, NEW p \in P!People, P!PageTakesEnded(p) \/ P!PhoneTakesEnded(p)
    PROVE  Turns(p) /\ Heard(p, Head(down[p]))
  <1> DEFINE m == Head(down[p])
  <1>1. /\ Typed /\ PhaseOf(p) /\ P!Attempts = {1} /\ tried[p] \in {0, 1}
        /\ p \in Pages <=> p \notin Phones
    BY OnceFacts
  <1>2. m \in FromServer /\ down[p] # <<>> /\ down'[p] = Tail(down[p])
    BY <1>1, HearsHead DEF P!PageTakesEnded, P!PageHears, P!PhoneTakesEnded, P!PhoneHears
  <1>3. /\ up' = up /\ tried' = tried /\ creating' = creating /\ task' = task
    BY DEF P!PageTakesEnded, P!PhoneTakesEnded, P!Still
  <1>4. CASE phase[p] = "out"
    <2>1. UNCHANGED <<phase, flow, joined, peer, members>>
      BY <1>4 DEF P!PageTakesEnded, P!PhoneTakesEnded
    <2> QED
      BY <1>1, <1>2, <1>3, <1>4, <2>1, HeardOut, SameTurns
  <1>5. CASE phase[p] # "out"
    <2>1. P!Teardown(p) /\ P!Gone(p) /\ (flow' = flow \/ P!Flows(p, tried[p], "none"))
      BY <1>5 DEF P!PageTakesEnded, P!PhoneTakesEnded, P!Fail
    <2>2. p \in Pages => P!Flows(p, tried[p], "none")
      BY <1>1, <1>5 DEF P!PageTakesEnded, P!PhoneTakesEnded, P!PhoneHears
    <2>3. tried[p] = 1
      BY <1>1, <1>5 DEF PhaseOf
    <2>4. /\ phase'[p] = "out" /\ flow'[p][1] \in {flow[p][1], "none"}
          /\ p \in Pages => flow'[p][1] = "none"
      BY <1>1, <2>1, <2>2, <2>3 DEF P!Gone, P!Flows, Typed, P!TypeOK
    <2> QED
      BY <1>1, <1>2, <1>3, <2>1, <2>4, HeardOut, OutTurns, TearsFacts
  <1> QED
    BY <1>4, <1>5

\* An answer is taken by a connection that is there.
LEMMA AnsweredPeers ==
    ASSUME Typed, NEW p \in P!People, NEW m, m.who \in P!People, m.n \in Nat, P!Answered(p, m)
    PROVE  \A r \in P!People : peer'[p][r] = P!NoPeer <=> peer[p][r] = P!NoPeer
  <1>1. peer[p][m.who] \in P!Peer
    BY PeerFacts
  <1> DEFINE new == [peer[p][m.who] EXCEPT !.st = "stable", !.with = m.n]
  <1>2. new.st # "none"
    BY <1>1 DEF P!Peer
  <1>3. CASE peer[p][m.who].st = "offered"
    <2>1. peer' = [peer EXCEPT ![p][m.who] = new]
      BY <1>3 DEF P!Answered, Typed, P!TypeOK
    <2>2. peer[p][m.who] # P!NoPeer
      BY <1>3 DEF P!NoPeer
    <2> HIDE DEF new
    <2>3. \A r \in P!People : peer'[p][r] = P!NoPeer <=> r # m.who /\ peer[p][r] = P!NoPeer
      BY <1>2, <2>1, Respelt
    <2> QED
      BY <2>2, <2>3
  <1>4. CASE peer[p][m.who].st # "offered"
    BY <1>4 DEF P!Answered
  <1> QED
    BY <1>3, <1>4

LEMMA PageSdpStep ==
    ASSUME OnceInv, MaxJoins = 1, NEW p \in P!People, P!PageTakesSdp(p)
    PROVE  Turns(p) /\ Heard(p, Head(down[p]))
  <1> DEFINE m == Head(down[p])
  <1>1. /\ Typed /\ PhaseOf(p) /\ p \in Pages
        /\ p \in Pages <=> p \notin Phones
    BY OnceFacts DEF P!PageTakesSdp, P!PageHears
  <1>2. /\ m \in FromServer /\ m.type = "sdp" /\ down[p] # <<>> /\ down'[p] = Tail(down[p])
        /\ m.who \in P!People /\ m.n \in Nat /\ m.op \in {"offer", "answer"}
    BY <1>1, HearsHead, TakesTyped DEF P!PageTakesSdp, P!PageHears
  <1>3. /\ up' = up /\ tried' = tried /\ phase' = phase
        /\ flow' = flow /\ joined' = joined /\ creating' = creating /\ members' = members
    BY DEF P!PageTakesSdp, P!Unmoved, P!Answered
  <1>4. ~Dooms(m) /\ \A q : ~Parts(m, q)
    BY <1>2 DEF Dooms, Parts
  <1>5. CASE phase[p] = "out"
    <2>1. UNCHANGED <<peer, task>>
      BY <1>5 DEF P!PageTakesSdp
    <2> QED
      BY <1>1, <1>2, <1>3, <1>5, <2>1, HeardOut, SameTurns
  <1>6. CASE phase[p] # "out"
    <2>1. Turns(p)
      BY <1>1, <1>3, <1>6, SameTurns
    <2>2. /\ \A q \in P!People : peer'[p][q] = P!NoPeer <=>
                                     peer[p][q] = P!NoPeer /\ ~(m.op = "offer" /\ q = m.who)
          /\ \A t \in task'[p] : t \in task[p] \/ t.op = "answer"
      <3>1. CASE m.op = "answer"
        <4>1. P!Answered(p, m)
          BY <1>6, <3>1 DEF P!PageTakesSdp
        <4>2. task' = task
          BY <4>1 DEF P!Answered
        <4> QED
          BY <1>1, <1>2, <3>1, <4>1, <4>2, AnsweredPeers
      <3>2. CASE m.op = "offer"
        <4>1. PICK pc : /\ peer' = [peer EXCEPT ![p][m.who] = P!Applied(pc, m.n)]
                        /\ pc \in {P!Fresh(p, m.who), peer[p][m.who]}
                        /\ P!Tasks(p, {P!Answer(m.who, pc.n, m.n)})
          BY <1>2, <1>6, <3>2 DEF P!PageTakesSdp
        <4>2. P!Applied(pc, m.n).st = "remote"
          <5>1. local[p] \in 0..MaxJoins
            BY <1>1, PeerFacts
          <5>2. pc \in P!Peer
            BY <1>1, <1>2, <4>1, <5>1, PeerFacts, FreshTyped
          <5> QED
            BY <5>2 DEF P!Applied, P!Peer
        <4>3. task'[p] = task[p] \cup {P!Answer(m.who, pc.n, m.n)}
          BY <1>1, <4>1 DEF P!Tasks, Typed, P!TypeOK
        <4>4. \A r \in P!People : peer'[p][r] = P!NoPeer <=> r # m.who /\ peer[p][r] = P!NoPeer
          BY <1>1, <1>2, <4>1, <4>2, Respelt
        <4> QED
          BY <3>2, <4>3, <4>4 DEF P!Answer
      <3> QED
        BY <1>2, <3>1, <3>2
    <2>3. \A q : Shows(m, q) <=> m.op = "offer" /\ q = m.who
      BY <1>2 DEF Shows
    <2>4. P!Shown(p)' = P!Shown(p) \cup {q \in P!People : Shows(m, q)}
      BY <1>1, <1>2, <2>2, <2>3 DEF P!Shown
    <2>5. Heard(p, m)
      BY <1>2, <1>3, <1>4, <1>6, <2>2, <2>4 DEF Heard
    <2> QED
      BY <2>1, <2>5
  <1> QED
    BY <1>5, <1>6

LEMMA PhoneAckStep ==
    ASSUME OnceInv, MaxJoins = 1, NEW p \in P!People, P!PhoneTakesAck(p)
    PROVE  Turns(p) /\ Heard(p, Head(down[p]))
  <1> DEFINE m == Head(down[p])
  <1>1. /\ Typed /\ PhaseOf(p) /\ P!Attempts = {1} /\ p \in Phones /\ p \notin Pages
        /\ phase[p] \in {"out", "opening", "in"} /\ tried[p] \in {0, 1}
    BY OnceFacts DEF P!PhoneTakesAck
  <1>2. /\ m \in FromServer /\ m.type = "ack" /\ down[p] # <<>> /\ down'[p] = Tail(down[p])
        /\ 1 \in 1..Len(down[p]) /\ m = down[p][1]
    BY <1>1, HearsHead DEF P!PhoneTakesAck
  <1>3. m.n = 1 /\ m.ok \in BOOLEAN /\ m.who \subseteq P!People
    BY <1>1, TakesTyped DEF P!PhoneTakesAck
  <1>4. phase[p] # "out" => flow[p][1] = "ack" /\ phase[p] = "opening"
    <2>1. phase[p] # "out" => flow[p][1] = "ack"
      BY <1>2 DEF OnceInv, DownOrder
    <2> QED
      BY <1>1, <2>1 DEF PhaseOf
  <1>5. up' = up /\ tried' = tried
    BY DEF P!PhoneTakesAck
  <1>6. flow'[p][1] = IF flow[p][1] = "ack" THEN "none" ELSE flow[p][1]
    BY <1>1, <1>3 DEF P!PhoneTakesAck, Typed, P!TypeOK
  <1>7. CASE phase[p] = "out"
    <2>1. UNCHANGED <<phase, joined, local, running, peer, members, task, creating>>
      BY <1>7 DEF P!PhoneTakesAck
    <2> QED
      BY <1>1, <1>2, <1>5, <1>6, <1>7, <2>1, HeardOut, OutTurns
  <1>8. CASE phase[p] # "out" /\ ~m.ok
    <2>1. P!Teardown(p) /\ P!Gone(p) /\ UNCHANGED task
      BY <1>3, <1>4, <1>8 DEF P!PhoneTakesAck, P!Fail
    <2>2. phase'[p] = "out"
      BY <1>1, <2>1 DEF P!Gone, Typed, P!TypeOK
    <2> QED
      BY <1>1, <1>2, <1>5, <1>6, <2>1, <2>2, HeardOut, OutTurns
  <1>9. CASE phase[p] # "out" /\ m.ok
    <2>1. /\ phase' = [phase EXCEPT ![p] = "in"] /\ members' = [members EXCEPT ![p] = m.who]
          /\ P!Tasks(p, P!Offers(P!Ensured(p, m.who), peer[p]))
          /\ UNCHANGED <<joined, local, running, peer>>
      BY <1>3, <1>4, <1>9 DEF P!PhoneTakesAck
    <2>2. phase'[p] = "in" /\ members'[p] = m.who
      BY <1>1, <2>1 DEF Typed, P!TypeOK
    <2>3. Turns(p)
      BY <1>1, <1>2, <1>4, <1>5, <1>6, <1>9, <2>1, <2>2 DEF Turns, PhaseOf
    <2>4. \A q : (Shows(m, q) <=> q \in m.who) /\ ~Parts(m, q)
      BY <1>2 DEF Shows, Parts
    <2>5. P!Shown(p)' = m.who
      BY <1>1, <2>2 DEF P!Shown
    <2>6. \A t \in task'[p] : t \in task[p] \/ (t.op = "offer" /\ t.who \in m.who)
      <3>1. task'[p] = task[p] \cup P!Offers(P!Ensured(p, m.who), peer[p])
        BY <1>1, <2>1 DEF P!Tasks, Typed, P!TypeOK
      <3> QED
        BY <3>1 DEF P!Offers, P!Offer, P!Ensured
    <2>7. ~Dooms(m)
      BY <1>2, <1>9 DEF Dooms
    <2>8. Heard(p, m)
      BY <1>2, <1>3, <1>5, <1>9, <2>1, <2>4, <2>5, <2>6, <2>7 DEF Heard
    <2> QED
      BY <2>3, <2>8
  <1> QED
    BY <1>3, <1>7, <1>8, <1>9

LEMMA PhoneNewsStep ==
    ASSUME OnceInv, MaxJoins = 1, NEW p \in P!People,
           P!PhoneTakesJoined(p) \/ P!PhoneTakesLeft(p) \/ P!PhoneTakesIce(p)
    PROVE  Turns(p) /\ Heard(p, Head(down[p]))
  <1> DEFINE m == Head(down[p])
  <1>1. Typed /\ PhaseOf(p) /\ p \in Phones /\ p \notin Pages
    BY OnceFacts DEF P!PhoneTakesJoined, P!PhoneTakesLeft, P!PhoneTakesIce, P!PhoneHears
  <1>2. /\ m \in FromServer /\ m.type \in {"joined", "left", "ice"}
        /\ down[p] # <<>> /\ down'[p] = Tail(down[p])
        /\ m.who \in P!People
        /\ P!PhoneTakesJoined(p) => m.type = "joined"
        /\ P!PhoneTakesLeft(p) => m.type = "left"
        /\ P!PhoneTakesIce(p) => m.type = "ice"
    BY <1>1, HearsHead, TakesTyped
    DEF P!PhoneTakesJoined, P!PhoneTakesLeft, P!PhoneTakesIce, P!PhoneHears
  <1>3. /\ up' = up /\ tried' = tried /\ task' = task /\ phase' = phase
        /\ flow' = flow /\ joined' = joined
    BY DEF P!PhoneTakesJoined, P!PhoneTakesLeft, P!PhoneTakesIce, P!PhoneStays
  <1>4. Turns(p)
    BY <1>1, <1>3, SameTurns
  <1>5. ~Dooms(m)
    BY <1>2 DEF Dooms
  <1>6. CASE P!PhoneTakesJoined(p)
    <2>1. members'[p] = members[p] \/ (phase[p] # "out" /\ members'[p] = members[p] \cup {m.who})
      BY <1>1, <1>6 DEF P!PhoneTakesJoined, Typed, P!TypeOK
    <2>2. phase[p] # "out" => members'[p] = members[p] \cup {m.who}
      BY <1>1, <1>6 DEF P!PhoneTakesJoined, Typed, P!TypeOK
    <2>3. \A q : (Shows(m, q) <=> q = m.who) /\ ~Parts(m, q)
      BY <1>2, <1>6 DEF Shows, Parts
    <2>4. P!Shown(p)' = members'[p] /\ P!Shown(p) = members[p]
      BY <1>1 DEF P!Shown
    <2>5. Heard(p, m)
      BY <1>2, <1>3, <1>5, <2>1, <2>2, <2>3, <2>4 DEF Heard
    <2> QED
      BY <1>4, <2>5
  <1>7. CASE P!PhoneTakesLeft(p)
    <2>1. members'[p] = members[p] \ {m.who}
      BY <1>1, <1>7 DEF P!PhoneTakesLeft, Typed, P!TypeOK
    <2>2. \A q : ~Shows(m, q) /\ (Parts(m, q) <=> q = m.who)
      BY <1>2, <1>7 DEF Shows, Parts
    <2>3. P!Shown(p)' = members'[p] /\ P!Shown(p) = members[p]
      BY <1>1 DEF P!Shown
    <2>4. Heard(p, m)
      BY <1>2, <1>3, <1>5, <2>1, <2>2, <2>3 DEF Heard
    <2> QED
      BY <1>4, <2>4
  <1>8. CASE P!PhoneTakesIce(p)
    <2>1. P!Shown(p)' = P!Shown(p)
      BY <1>1, <1>8 DEF P!PhoneTakesIce, P!Shown
    <2>2. \A q : ~Parts(m, q) /\ m.type = "ice"
      BY <1>2, <1>8 DEF Parts
    <2>3. Heard(p, m)
      BY <1>2, <1>3, <1>5, <2>1, <2>2 DEF Heard
    <2> QED
      BY <1>4, <2>3
  <1> QED
    BY <1>6, <1>7, <1>8

LEMMA PhoneSdpStep ==
    ASSUME OnceInv, MaxJoins = 1, NEW p \in P!People, P!PhoneTakesSdp(p)
    PROVE  Turns(p) /\ Heard(p, Head(down[p]))
  <1> DEFINE m == Head(down[p])
  <1>1. Typed /\ PhaseOf(p) /\ p \in Phones /\ p \notin Pages
    BY OnceFacts DEF P!PhoneTakesSdp, P!PhoneHears
  <1>2. /\ m \in FromServer /\ m.type = "sdp" /\ down[p] # <<>> /\ down'[p] = Tail(down[p])
        /\ m.who \in P!People /\ m.n \in Nat /\ m.op \in {"offer", "answer"}
    BY <1>1, HearsHead, TakesTyped DEF P!PhoneTakesSdp, P!PhoneHears
  <1>3. /\ up' = up /\ tried' = tried /\ phase' = phase
        /\ flow' = flow /\ joined' = joined /\ members' = members
    BY DEF P!PhoneTakesSdp, P!PhoneStays
  <1>4. Turns(p)
    BY <1>1, <1>3, SameTurns
  <1>5. ~Dooms(m) /\ \A q : ~Parts(m, q)
    BY <1>2 DEF Dooms, Parts
  <1>6. P!Shown(p)' = P!Shown(p)
    BY <1>1, <1>3 DEF P!Shown
  <1>7. phase[p] = "out" => task' = task
    BY DEF P!PhoneTakesSdp
  <1>8. \A t \in task'[p] : t \in task[p] \/ t.op = "answer"
    <2>1. task' = task \/ \E ts : P!Tasks(p, ts) /\ \A t \in ts : t.op = "answer"
      <3> DEFINE all == {P!Answer(q, 0, m.n) : q \in P!Ensured(p, {m.who})}
      <3>1. \A t \in all : t.op = "answer"
        BY DEF P!Answer
      <3>2. \/ task' = task \/ P!Tasks(p, all)
            \/ \E n : P!Tasks(p, {P!Answer(m.who, n, m.n)})
        BY DEF P!PhoneTakesSdp, P!Answered
      <3>3. \A n : P!Answer(m.who, n, m.n).op = "answer"
        BY DEF P!Answer
      <3> HIDE DEF all
      <3>4. CASE P!Tasks(p, all)
        BY <3>1, <3>4
      <3>5. ASSUME NEW n, P!Tasks(p, {P!Answer(m.who, n, m.n)})
            PROVE  \E ts : P!Tasks(p, ts) /\ \A t \in ts : t.op = "answer"
        BY <3>3, <3>5
      <3> QED
        BY <3>2, <3>4, <3>5
    <2>2. \A ts : P!Tasks(p, ts) => task'[p] = task[p] \cup ts
      BY <1>1 DEF P!Tasks, Typed, P!TypeOK
    <2> QED
      BY <2>1, <2>2
  <1>9. Heard(p, m)
    BY <1>2, <1>3, <1>5, <1>6, <1>8 DEF Heard
  <1> QED
    BY <1>4, <1>9

LEMMA MakesFew ==
    ASSUME Typed, NEW p \in P!People, Moves(p) \/ Listens(p) \/ Connects(p)
    PROVE  Makes(p)
  <1> SUFFICES ASSUME p \in Phones, p \notin Pages, creating[p] = {}
               PROVE  /\ made'[p] = made[p]
                      /\ creating'[p] = {} \/ \E i \in 1..Len(down[p]) : down[p][i].type # "ended"
    BY MeshAssumption DEF Makes
  <1>1. CASE Moves(p)
    BY <1>1 DEF Moves, P!Start, P!PageEnters, P!PageRefused, P!PageLeaves, P!PhoneMedia,
                P!PhoneRefused, P!PhoneAsks, P!PhoneTimesOut, P!PhoneLeaves, P!Trickles, P!Still
  <1>2. CASE Connects(p)
    BY <1>2 DEF Connects, P!Described, P!PhoneCreated
  <1>3. CASE Listens(p)
    <2>1. made' = made
      BY <1>3 DEF Listens, P!PageTakesAck, P!PageTakesJoined, P!PageTakesLeft, P!PageTakesEnded,
                  P!PageTakesSdp, P!PageTakesIce, P!PageHears, P!PhoneTakesAck,
                  P!PhoneTakesJoined, P!PhoneTakesLeft, P!PhoneTakesEnded, P!PhoneTakesSdp,
                  P!PhoneTakesIce, P!Still
    <2>2. CASE P!PhoneTakesLeft(p) \/ P!PhoneTakesEnded(p) \/ P!PhoneTakesIce(p)
      BY <2>1, <2>2 DEF P!PhoneTakesLeft, P!PhoneTakesEnded, P!PhoneTakesIce, P!Still
    <2>3. ASSUME NEW type \in {"ack", "joined", "sdp"}, P!Takes(p, type)
          PROVE  \E i \in 1..Len(down[p]) : down[p][i].type # "ended"
      BY <2>3, HearsHead
    <2>4. P!Takes(p, "ack") \/ P!Takes(p, "joined") \/ P!Takes(p, "sdp")
          \/ P!PhoneTakesLeft(p) \/ P!PhoneTakesEnded(p) \/ P!PhoneTakesIce(p)
      BY <1>3 DEF Listens, P!PageTakesAck, P!PageTakesJoined, P!PageTakesLeft,
                  P!PageTakesEnded, P!PageTakesSdp, P!PageTakesIce, P!PageHears,
                  P!PhoneTakesAck, P!PhoneTakesJoined, P!PhoneTakesSdp, P!PhoneHears
    <2> QED
      BY <2>1, <2>2, <2>3, <2>4
  <1> QED
    BY <1>1, <1>2, <1>3

LEMMA OnceSteps ==
    ASSUME OnceInv, MaxJoins = 1, NEW p \in P!People, Moves(p) \/ Listens(p) \/ Connects(p)
    PROVE  Step(p)
  <1>1. Typed /\ Makes(p)
    BY MakesFew DEF OnceInv
  <1>2. CASE Moves(p)
    <2>1. Alone(p)
      BY <1>1, <1>2, MovesAlone
    <2>2. Says(p) /\ Turns(p) /\ Deaf(p)
      BY <1>2, PageMovesStep, PhoneMovesStep, TricklesStep DEF Moves
    <2> QED
      BY <1>1, <2>1, <2>2 DEF Step
  <1>3. CASE Connects(p)
    <2>1. Alone(p)
      BY <1>1, <1>3, ConnectsAlone
    <2>2. Says(p) /\ Turns(p) /\ Deaf(p)
      BY <1>3, DescribedStep, CreatedStep DEF Connects
    <2> QED
      BY <1>1, <2>1, <2>2 DEF Step
  <1>4. CASE Listens(p)
    <2>1. Alone(p)
      BY <1>1, <1>4, ListensAlone
    <2>2. Turns(p) /\ Heard(p, Head(down[p]))
      BY <1>4, PageAckStep, PageNewsStep, EndedStep, PageSdpStep, PhoneAckStep, PhoneNewsStep,
         PhoneSdpStep DEF Listens
    <2>3. Head(down[p]) \in FromServer
      BY <1>1, <2>2, HeadFacts DEF Heard
    <2>4. Says(p)
      BY <1>1, <2>2, SaysNothing DEF Heard
    <2> QED
      BY <1>1, <2>1, <2>2, <2>3, <2>4 DEF Step
  <1> QED
    BY <1>2, <1>3, <1>4

LEMMA OnceStep ==
    ASSUME OnceInv, MaxJoins = 1, [P!Next]_(P!vars)
    PROVE  OnceInv'
  <1>1. Typed /\ PageFlows /\ Numbers
    BY DEF OnceInv
  <1>2. Typed' /\ PageFlows' /\ Numbers'
    BY <1>1, TypedStep, PageFlowsStep, NumbersStep
  <1>3. CASE P!Next
    <2>1. PICK p \in P!People : P!Serve(p) \/ Moves(p) \/ Listens(p) \/ Connects(p)
      BY <1>3, StepKinds
    <2> QED
      BY <1>2, <2>1, OnceSteps, OnceKept, ServeKept
  <1>4. CASE UNCHANGED P!vars
    <2>1. /\ room' = room /\ up' = up /\ down' = down /\ phase' = phase
          /\ tried' = tried /\ flow' = flow /\ joined' = joined /\ peer' = peer
          /\ creating' = creating /\ task' = task /\ members' = members /\ made' = made
      BY <1>4 DEF P!vars
    <2>2. \A p : (ToEnter(p)' <=> ToEnter(p)) /\ P!Shown(p)' = P!Shown(p)
      BY <2>1 DEF ToEnter, P!Shown
    <2>3. \A p : Settled(p)' <=> Settled(p)
      BY <2>1, <2>2 DEF Settled
    <2>4. \A p, q : Offering(p, q)' <=> Offering(p, q)
      BY <2>1, <2>2 DEF Offering, Knows
    <2>5. \A p, q : /\ Announced(p, q)' <=> Announced(p, q)
                   /\ TakenAway(p, q)' <=> TakenAway(p, q)
      BY <2>1 DEF Announced, TakenAway
    <2>6. \A p, q : Sees(p, q)' <=> Sees(p, q)
      BY <2>1 DEF Sees, Announced, TakenAway, P!Shown
    <2>7. Phases'
      BY <2>1 DEF OnceInv, Phases, PhaseOf
    <2>8. UpOrder' /\ DownOrder'
      BY <2>1 DEF OnceInv, UpOrder, DownOrder
    <2>9. Unheard'
      BY <2>1, <2>2, <2>4 DEF OnceInv, Unheard
    <2>10. Others' /\ Offerers'
      BY <2>1, <2>2, <2>3, <2>4 DEF OnceInv, Others, Offerers
    <2>11. SettledSee'
      BY <2>1, <2>2, <2>3, <2>6 DEF OnceInv, SettledSee, P!Shown
    <2> QED
      BY <1>2, <2>7, <2>8, <2>9, <2>10, <2>11 DEF OnceInv
  <1> QED
    BY <1>3, <1>4

LEMMA OnceInit ==
    ASSUME P!Init, MaxJoins = 1
    PROVE  OnceInv
  <1>1. Typed
    BY TypedInit
  <1>2. /\ room = {} /\ P!Attempts = {1}
        /\ \A p \in P!People :
              /\ up[p] = <<>> /\ down[p] = <<>> /\ phase[p] = "out" /\ tried[p] = 0
              /\ flow[p] = [a \in P!Attempts |-> "none"] /\ joined[p] = FALSE /\ task[p] = {}
              /\ creating[p] = {} /\ members[p] = {}
              /\ \A q \in P!People : peer[p][q] = P!NoPeer /\ made[p][q] = 0
    BY DEF P!Init, P!Attempts
  <1>3. \A p \in P!People : Len(up[p]) = 0 /\ Len(down[p]) = 0 /\ P!Shown(p) = {}
    BY <1>2 DEF P!Shown
  <1>4. \A p \in P!People : flow[p][1] = "none"
    BY <1>2
  <1>5. Numbers /\ PageFlows /\ UpOrder /\ DownOrder /\ Others
    BY <1>2, <1>3 DEF Numbers, PageFlows, UpOrder, DownOrder, Others, P!People
  <1>6. Phases
    BY <1>2, <1>4, MeshAssumption DEF Phases, PhaseOf
  <1>7. \A p, q \in P!People : ~Offering(p, q) /\ ~Settled(p)
    BY <1>2, <1>3 DEF Offering, Settled, Knows
  <1>8. Unheard /\ Offerers /\ SettledSee
    BY <1>2, <1>3, <1>7 DEF Unheard, Offerers, SettledSee
  <1> QED
    BY <1>1, <1>5, <1>6, <1>8 DEF OnceInv

LEMMA MeshInit == P!Init => Typed /\ PageFlows /\ Numbers
  <1>1. P!Init => PageFlows
    BY DEF P!Init, PageFlows, P!People
  <1>2. P!Init => Numbers
    BY DEF P!Init, Numbers
  <1> QED
    BY <1>1, <1>2, TypedInit

LEMMA TalksMove == [TalksNext]_<<vars, roomVars, meshVars, focus>> => [P!Next]_(P!vars)
  BY DEF TalksNext, meshVars, P!vars
-----------------------------------------------------------------------------
\* RealtimeService, MeetingCall and MeetingCubit: what they keep has its type, however often
\* people enter and however late an answer comes; among it that a page has joined only what
\* it is in, and that a room with people inside is there.
THEOREM TalksTypeCorrect == TalksSpec => []RoomTypesOK
  <1> DEFINE Mesh == Typed /\ PageFlows /\ Numbers
  <1>1. TalksInit => Mesh
    BY MeshInit DEF TalksInit
  <1>2. Mesh /\ [TalksNext]_<<vars, roomVars, meshVars, focus>> => Mesh'
    BY TalksMove, TypedStep, PageFlowsStep, NumbersStep
  <1>3. Mesh /\ focus = "room" /\ O!TypeOK => RoomTypesOK
    BY DEF Typed, RoomTypesOK
  <1>4. Mesh /\ focus # "room" /\ M!TypeOK => RoomTypesOK
    BY DEF Typed, RoomTypesOK
  <1> HIDE DEF Mesh
  <1> QED
    BY <1>1, <1>2, <1>3, <1>4, TalksAreMeetings, OneRoomHold, SomeRoomsHold, PTL DEF TalksSpec

\* meeting:join, meeting:leave and what page and phone make of the news: when all has been
\* heard, whoever is inside is shown the others who are, however many enter and leave and
\* however their news and candidates cross, if nobody enters a second time.  A phone is shown
\* nobody else; a page may be shown phones besides, whose candidates came after they had left.
THEOREM MembersAreShown == MaxJoins = 1 /\ TalksSpec => []ShownAreInside
  <1> SUFFICES ASSUME MaxJoins = 1 PROVE TalksSpec => []ShownAreInside
    OBVIOUS
  <1>1. TalksInit => OnceInv
    BY OnceInit DEF TalksInit
  <1>2. OnceInv /\ [TalksNext]_<<vars, roomVars, meshVars, focus>> => OnceInv'
    BY TalksMove, OnceStep
  <1>3. OnceInv => ShownAreInside
    BY OnceIsShown DEF ShownAreInside
  <1> QED
    BY <1>1, <1>2, <1>3, PTL DEF TalksSpec
-----------------------------------------------------------------------------
(***************************************************************************)
(* Who is inside is connected.                                             *)
(*                                                                         *)
(* That nothing is under way says nothing of how two people got there, so  *)
(* MeshInv follows what they negotiate from the ack of the one who enters  *)
(* later to two connections that have each other at their end: at any time *)
(* exactly one of the two has the next step to take, or it is on its way.  *)
(***************************************************************************)
\* What is told to somebody, and said by somebody, about somebody's connection.
About(q) ==
    {m \in FromServer : (m.type = "ack" /\ q \in m.who) \/ (m.type = "sdp" /\ m.who = q)}
Acks(q) == {m \in About(q) : m.type = "ack"}
SdpFrom(q, op, n) == {m \in About(q) : m.type = "sdp" /\ m.op = op /\ m.n = n}
To(q) == {m \in ToServer : m.type = "sdp" /\ m.to = q}
SdpTo(q, op, n) == {m \in To(q) : m.op = op /\ m.n = n}

\* Of what is of kind A there is one in s, which is one of X, or none if X is empty.
Only(s, A, X) ==
    /\ \A i \in 1..Len(s) : s[i] \in A => s[i] \in X
    /\ \A i, j \in 1..Len(s) : s[i] \in A /\ s[j] \in A => i = j
    /\ X = {} \/ \E i \in 1..Len(s) : s[i] \in A

LEMMA Skipped ==
    ASSUME NEW T, NEW s \in Seq(T), s # <<>>, NEW A, NEW X, Only(s, A, X), Head(s) \notin A
    PROVE  Only(Tail(s), A, X)
  <1>1. /\ Len(s) \in Nat /\ Len(Tail(s)) \in Nat /\ Head(s) = s[1]
        /\ \A i \in 1..Len(Tail(s)) : i + 1 \in 1..Len(s) /\ Tail(s)[i] = s[i + 1]
        /\ \A i \in 1..Len(s) : i # 1 => i - 1 \in 1..Len(Tail(s)) /\ s[i] = Tail(s)[i - 1]
    BY TailFacts
  <1>2. \A i \in 1..Len(Tail(s)) : Tail(s)[i] \in A => Tail(s)[i] \in X
    BY <1>1 DEF Only
  <1>3. ASSUME NEW i \in 1..Len(Tail(s)), NEW j \in 1..Len(Tail(s)),
               Tail(s)[i] \in A, Tail(s)[j] \in A
        PROVE  i = j
    <2>1. i + 1 = j + 1
      BY <1>1, <1>3 DEF Only
    <2> QED
      BY <1>1, <2>1
  <1>4. X = {} \/ \E i \in 1..Len(Tail(s)) : Tail(s)[i] \in A
    BY <1>1 DEF Only
  <1> QED
    BY <1>2, <1>3, <1>4 DEF Only

LEMMA Taken ==
    ASSUME NEW T, NEW s \in Seq(T), s # <<>>, NEW A, NEW X, Only(s, A, X), Head(s) \in A
    PROVE  Head(s) \in X /\ Only(Tail(s), A, {})
  <1>1. /\ Len(s) \in Nat /\ Len(Tail(s)) \in Nat /\ Head(s) = s[1] /\ 1 \in 1..Len(s)
        /\ \A i \in 1..Len(Tail(s)) : i + 1 \in 1..Len(s) /\ Tail(s)[i] = s[i + 1]
    BY TailFacts
  <1>2. ASSUME NEW i \in 1..Len(Tail(s)) PROVE Tail(s)[i] \notin A
    <2>1. i + 1 # 1 /\ i + 1 \in 1..Len(s) /\ Tail(s)[i] = s[i + 1]
      BY <1>1
    <2> QED
      BY <1>1, <2>1 DEF Only
  <1> QED
    BY <1>1, <1>2 DEF Only

LEMMA Added ==
    ASSUME NEW T, NEW s \in Seq(T), NEW m \in T, NEW A, NEW X
    PROVE  /\ Only(s, A, X) /\ m \notin A => Only(Append(s, m), A, X)
           /\ Only(s, A, {}) /\ m \in A /\ m \in X => Only(Append(s, m), A, X)
  <1> DEFINE u == Append(s, m)
  <1>1. /\ Len(s) \in Nat /\ Len(u) = Len(s) + 1
        /\ \A i \in 1..Len(s) : i \in 1..Len(u) /\ u[i] = s[i]
        /\ \A i \in 1..Len(u) : i \notin 1..Len(s) => i = Len(u)
        /\ u[Len(u)] = m /\ Len(u) \in 1..Len(u) /\ Len(u) \notin 1..Len(s)
    OBVIOUS
  <1> HIDE DEF u
  <1>2. Only(s, A, X) /\ m \notin A => Only(u, A, X)
    BY <1>1 DEF Only
  <1>3. Only(s, A, {}) /\ m \in A /\ m \in X => Only(u, A, X)
    BY <1>1 DEF Only
  <1> QED
    BY <1>2, <1>3 DEF u
-----------------------------------------------------------------------------
TasksFor(p, q) == {t \in task[p] : t.who = q}
Pends(p, q) == q \in P!Pending(p)

\* What p hears of q and is to send it, and what it makes of that.
Side(p, q, D, U, T) ==
    Only(down[p], About(q), D) /\ Only(up[p], To(q), U) /\ TasksFor(p, q) = T
Has(p, q, k, st, n) ==
    k # 0 /\ peer[p][q].n = k /\ peer[p][q].st = st /\ peer[p][q].with = n
Comes(p, q, k) == k = 0 /\ Pends(p, q) /\ peer[p][q] = P!NoPeer
Bare(p, q) == peer[p][q] = P!NoPeer \/ peer[p][q].st = "new"

\* What the one who was inside has done ...
Unasked(p, q) == Side(p, q, {}, {}, {}) /\ Bare(p, q)
Asked(p, q, n) == Side(p, q, SdpFrom(q, "offer", n), {}, {}) /\ Bare(p, q)
Answering(p, q, n) == \E k \in Nat :
    /\ Side(p, q, {}, {}, {P!Answer(q, k, n)})
    /\ Comes(p, q, k) \/ Has(p, q, k, "remote", n)
Replied(p, q, k, n) == Side(p, q, {}, SdpTo(q, "answer", k), {}) /\ Has(p, q, k, "stable", n)
Done(p, q, k, n) == Side(p, q, {}, {}, {}) /\ Has(p, q, k, "stable", n)

\* ... and the one who enters.
Entered(p, q) ==
    Side(p, q, Acks(q), {}, {}) /\ peer[p][q] = P!NoPeer /\ ~Pends(p, q)
Preparing(p, q) == \E k \in Nat :
    /\ Side(p, q, {}, {}, {P!Offer(q, k)})
    /\ Comes(p, q, k) \/ Has(p, q, k, "new", 0)
Proposed(p, q, k) == Side(p, q, {}, SdpTo(q, "offer", k), {}) /\ Has(p, q, k, "offered", 0)
Waits(p, q, k) == Side(p, q, {}, {}, {}) /\ Has(p, q, k, "offered", 0)
Replying(p, q, k, n) == Side(p, q, SdpFrom(q, "answer", n), {}, {}) /\ Has(p, q, k, "offered", 0)

\* p offers and r answers, which have got so far.
Negotiate(p, r) ==
    \/ Unasked(r, p) /\ (Entered(p, r) \/ Preparing(p, r) \/ \E k \in Nat : Proposed(p, r, k))
    \/ \E k \in Nat : /\ Waits(p, r, k)
                      /\ \/ Asked(r, p, k) \/ Answering(r, p, k)
                         \/ \E j \in Nat : Replied(r, p, j, k)
    \/ \E k, j \in Nat : Done(r, p, j, k) /\ (Replying(p, r, k, j) \/ Done(p, r, k, j))

Negotiates == \A p, q \in P!People :
    p # q /\ Settled(p) /\ Settled(q) => Negotiate(p, q) \/ Negotiate(q, p)

\* Who is yet to enter is connected to nobody, nor is anybody to be with them.
Apart(p, q) == Side(p, q, {}, {}, {}) /\ peer[p][q] = P!NoPeer /\ ~Pends(p, q)
Strangers == \A p, q \in P!People : ToEnter(p) => Apart(p, q) /\ Apart(q, p)

\* One connection is there or is made, and of the stream that runs.
OnePeer == \A p, q \in P!People : Pends(p, q) => peer[p][q] = P!NoPeer
Streams == \A p \in P!People :
    phase[p] # "out" /\ flow[p][1] # "media" => local[p] = 1 /\ 1 \in running[p]
Sources == \A p, q \in P!People :
    phase[p] # "out" /\ peer[p][q] # P!NoPeer => peer[p][q].src = 1

MeshInv == OnceInv /\ Negotiates /\ Strangers /\ OnePeer /\ Streams /\ Sources

\* It is enough.
LEMMA SomeAck ==
    ASSUME NEW q \in P!People, MaxJoins = 1
    PROVE  Acks(q) # {}
  <1>1. [type |-> "ack", n |-> 1, ok |-> TRUE, who |-> {q}] \in Acks(q)
    BY DEF Acks, About, FromServer, P!Attempts
  <1> QED
    BY <1>1

LEMMA SomeSdp ==
    ASSUME NEW q \in P!People, NEW op \in {"offer", "answer"}, NEW n \in Nat
    PROVE  SdpFrom(q, op, n) # {} /\ SdpTo(q, op, n) # {}
  <1>1. [type |-> "sdp", who |-> q, op |-> op, n |-> n] \in SdpFrom(q, op, n)
    BY DEF SdpFrom, About, FromServer
  <1>2. [type |-> "sdp", to |-> q, op |-> op, n |-> n] \in SdpTo(q, op, n)
    BY DEF SdpTo, To, ToServer
  <1> QED
    BY <1>1, <1>2

LEMMA MeshIsMeshed ==
    ASSUME MeshInv, MaxJoins = 1
    PROVE  P!Meshed
  <1>1. OnceInv
    BY DEF MeshInv
  <1> SUFFICES ASSUME P!Quiet, NEW p \in P!Inside, NEW q \in P!Inside, p # q
               PROVE  P!Linked(p, q)
    BY DEF P!Meshed
  <1>2. \A x \in P!Inside :
            /\ x \in P!People /\ up[x] = <<>> /\ down[x] = <<>> /\ task[x] = {}
            /\ phase[x] # "out" /\ flow[x][1] = "none" /\ Settled(x)
    <2> SUFFICES ASSUME NEW x \in P!Inside
                 PROVE  /\ x \in P!People /\ up[x] = <<>> /\ down[x] = <<>> /\ task[x] = {}
                        /\ phase[x] # "out" /\ flow[x][1] = "none" /\ Settled(x)
      OBVIOUS
    <2>1. x \in P!People /\ phase[x] = "in" /\ 1 \in P!Attempts
      BY <1>1 DEF P!Inside, OnceInv, Typed, P!TypeOK, P!Attempts
    <2>2. /\ up[x] = <<>> /\ down[x] = <<>> /\ task[x] = {} /\ flow[x][1] = "none"
          /\ tried[x] = 1
      BY <1>1, <2>1 DEF P!Quiet, OnceInv, Phases, PhaseOf
    <2>3. Settled(x)
      BY <2>1, <2>2 DEF Settled, ToEnter
    <2> QED
      BY <2>1, <2>2, <2>3
  <1>3. \A x, y \in P!Inside : \A D, U, T :
            Side(x, y, D, U, T) => D = {} /\ U = {} /\ T = {}
    BY <1>2 DEF Side, Only, TasksFor
  <1>4. \A x, y \in P!Inside : x # y /\ Negotiate(x, y) =>
            \E k, j \in Nat : Done(y, x, j, k) /\ Done(x, y, k, j)
    <2> SUFFICES ASSUME NEW x \in P!Inside, NEW y \in P!Inside, x # y, Negotiate(x, y)
                 PROVE  \E k, j \in Nat : Done(y, x, j, k) /\ Done(x, y, k, j)
      OBVIOUS
    <2>1. ~Entered(x, y)
      BY <1>2, <1>3, SomeAck DEF Entered
    <2>2. ~Preparing(x, y) /\ \A n \in Nat : ~Answering(y, x, n)
      BY <1>3 DEF Preparing, Answering
    <2>3. \A k, n \in Nat : /\ ~Proposed(x, y, k) /\ ~Asked(y, x, k)
                            /\ ~Replied(y, x, k, n) /\ ~Replying(x, y, k, n)
      BY <1>2, <1>3, SomeSdp DEF Proposed, Asked, Replied, Replying
    <2> QED
      BY <2>1, <2>2, <2>3 DEF Negotiate
  <1>5. \E k, j \in Nat : Done(q, p, j, k) /\ Done(p, q, k, j)
    <2>1. Negotiate(p, q) \/ Negotiate(q, p)
      BY <1>2 DEF MeshInv, Negotiates
    <2> QED
      BY <1>4, <2>1
  <1>6. \A x, y \in P!Inside : \A k, j \in Nat : Done(x, y, k, j) =>
            /\ peer[x][y].st = "stable" /\ peer[x][y].n = k /\ peer[x][y].with = j
            /\ peer[x][y].src \in running[x]
    <2> SUFFICES ASSUME NEW x \in P!Inside, NEW y \in P!Inside, NEW k \in Nat, NEW j \in Nat,
                        Done(x, y, k, j)
                 PROVE  /\ peer[x][y].st = "stable" /\ peer[x][y].n = k /\ peer[x][y].with = j
                        /\ peer[x][y].src \in running[x]
      OBVIOUS
    <2>1. peer[x][y].st = "stable" /\ peer[x][y].n = k /\ peer[x][y].with = j
      BY DEF Done, Has
    <2>2. peer[x][y] # P!NoPeer
      BY <2>1 DEF P!NoPeer
    <2>3. peer[x][y].src = 1 /\ 1 \in running[x]
      BY <1>2, <2>2 DEF MeshInv, Sources, Streams
    <2> QED
      BY <2>1, <2>3
  <1> QED
    BY <1>5, <1>6 DEF P!Linked
-----------------------------------------------------------------------------
\* What p does is of no concern to q, but for what it hears and says ...
Calm(p, q) ==
    /\ TasksFor(p, q)' = TasksFor(p, q) /\ (Pends(p, q)' <=> Pends(p, q))
    /\ peer'[p][q] = peer[p][q] \/ (phase'[p] = "out" /\ peer'[p][q] = P!NoPeer)

\* ... or a first connection to q is there or comes.
Opens(p, q) ==
    /\ TasksFor(p, q)' = TasksFor(p, q) /\ peer[p][q] = P!NoPeer /\ ~Pends(p, q)
    /\ \E k \in Nat : Comes(p, q, k)' \/ Has(p, q, k, "new", 0)'

LEMMA FreshHas ==
    ASSUME Typed, NEW p \in P!People, NEW q \in P!People
    PROVE  LET pc == P!Fresh(p, q) IN
           /\ pc.n \in Nat /\ pc.n # 0 /\ pc.st = "new" /\ pc.with = 0 /\ pc.src = local[p]
           /\ pc # P!NoPeer
  <1>1. made[p][q] \in Nat
    BY PeerFacts
  <1>2. /\ P!Fresh(p, q).n = made[p][q] + 1 /\ P!Fresh(p, q).st = "new"
        /\ P!Fresh(p, q).with = 0 /\ P!Fresh(p, q).src = local[p]
    BY DEF P!Fresh
  <1>3. P!Fresh(p, q) # P!NoPeer
    BY <1>2 DEF P!NoPeer
  <1> QED
    BY <1>1, <1>2, <1>3

LEMMA CreatesOf ==
    ASSUME Typed, NEW p \in P!People, NEW who, P!Creates(p, who), NEW q \in P!People
    PROVE  peer'[p][q] = IF q \in who /\ peer[p][q] = P!NoPeer THEN P!Fresh(p, q) ELSE peer[p][q]
  BY DEF Typed, P!TypeOK, P!Creates

LEMMA EnsuresOf ==
    ASSUME Typed, NEW p \in P!People, NEW who, P!Ensures(p, who), NEW q \in P!People
    PROVE  Pends(p, q)' <=> Pends(p, q) \/ (local[p] # 0 /\ q \in who /\ peer[p][q] = P!NoPeer)
  <1> DEFINE new == {x \in who : peer[p][x] = P!NoPeer /\ x \notin P!Pending(p)}
  <1>1. creating'[p] = creating[p] \cup IF local[p] = 0 THEN {} ELSE new \X {local[p]}
    BY DEF P!Ensures, Typed, P!TypeOK
  <1>2. Pends(p, q) <=> \E c \in creating[p] : c[1] = q
    BY DEF Pends, P!Pending
  <1>3. Pends(p, q)' <=> \E c \in creating'[p] : c[1] = q
    BY DEF Pends, P!Pending
  <1>4. (\E c \in new \X {local[p]} : c[1] = q) <=> q \in new
    <2>1. q \in new => <<q, local[p]>> \in new \X {local[p]} /\ <<q, local[p]>>[1] = q
      OBVIOUS
    <2> QED
      BY <2>1
  <1>5. q \in new <=> q \in who /\ peer[p][q] = P!NoPeer /\ ~Pends(p, q)
    BY DEF Pends
  <1> HIDE DEF new
  <1> QED
    BY <1>1, <1>2, <1>3, <1>4, <1>5

LEMMA SamePends ==
    ASSUME NEW p, NEW q, creating'[p] = creating[p]
    PROVE  Pends(p, q)' <=> Pends(p, q)
  BY DEF Pends, P!Pending

LEMMA TasksOf ==
    ASSUME Typed, NEW p \in P!People, NEW ts, P!Tasks(p, ts), NEW q
    PROVE  TasksFor(p, q)' = TasksFor(p, q) \cup {t \in ts : t.who = q}
  <1>1. task'[p] = task[p] \cup ts
    BY DEF P!Tasks, Typed, P!TypeOK
  <1> QED
    BY <1>1 DEF TasksFor

LEMMA SameTasks ==
    ASSUME NEW p, NEW q, task'[p] = task[p]
    PROVE  TasksFor(p, q)' = TasksFor(p, q)
  BY DEF TasksFor

LEMMA Torn ==
    ASSUME Typed, NEW p \in P!People, NEW q \in P!People, P!Teardown(p), phase'[p] = "out",
           UNCHANGED <<creating, task>>
    PROVE  Calm(p, q)
  BY TearsFacts, SamePends, SameTasks DEF Calm

LEMMA Nothing ==
    ASSUME NEW p, NEW q, UNCHANGED <<peer, creating, task>>
    PROVE  Calm(p, q)
  BY SamePends, SameTasks DEF Calm

\* What is heard by whom is in it finds a stream.
LEMMA Streaming ==
    ASSUME MeshInv, MaxJoins = 1, NEW p \in P!People, down[p] # <<>>, phase[p] # "out",
           Head(down[p]).type # "ended"
    PROVE  ~ToEnter(p) /\ local[p] = 1
  <1>1. Typed /\ OnceInv
    BY DEF MeshInv, OnceInv
  <1>2. 1 \in 1..Len(down[p]) /\ Head(down[p]) = down[p][1]
    <2>1. down[p] \in Seq(FromServer)
      BY <1>1 DEF Typed
    <2> QED
      BY <2>1
  <1>3. ~ToEnter(p)
    BY <1>1, <1>2 DEF OnceInv, Unheard
  <1>4. flow[p][1] # "media"
    BY <1>3 DEF ToEnter
  <1> QED
    BY <1>3, <1>4 DEF MeshInv, Streams
-----------------------------------------------------------------------------
\* The ack: an offer to everybody inside.
LEMMA PageAckOf ==
    ASSUME MeshInv, MaxJoins = 1, NEW p \in P!People, P!PageTakesAck(p), NEW q \in P!People
    PROVE  LET m == Head(down[p]) IN
           /\ q \notin m.who => Calm(p, q)
           /\ phase'[p] # "out" /\ m.ok /\ q \in m.who /\ peer[p][q] = P!NoPeer => \E k \in Nat :
                 Has(p, q, k, "new", 0)' /\ TasksFor(p, q)' = TasksFor(p, q) \cup {P!Offer(q, k)}
  <1> DEFINE m == Head(down[p])
  <1>1. OnceInv /\ Typed /\ p \in Pages
    BY DEF MeshInv, OnceInv, P!PageTakesAck
  <1>2. /\ m \in FromServer /\ m.type = "ack" /\ down[p] # <<>> /\ down'[p] = Tail(down[p])
        /\ 1 \in 1..Len(down[p]) /\ m = down[p][1]
    BY <1>1, HearsHead DEF P!PageTakesAck
  <1>3. m.n = 1 /\ m.ok \in BOOLEAN /\ m.who \subseteq P!People
    <2>1. P!Attempts = {1}
      BY <1>1, OnceFacts
    <2> QED
      BY <1>1, <2>1, TakesTyped DEF P!PageTakesAck
  <1>4. phase[p] # "out" => flow[p][1] = "ack"
    BY <1>1, <1>2 DEF OnceInv, DownOrder
  <1>5. creating' = creating
    BY DEF P!PageTakesAck
  <1>6. CASE flow[p][1] # "ack"
    <2>1. UNCHANGED <<phase, peer, task>>
      BY <1>3, <1>6 DEF P!PageTakesAck
    <2> QED
      BY <1>4, <1>5, <1>6, <2>1, Nothing
  <1>7. CASE flow[p][1] = "ack" /\ ~m.ok
    <2>1. P!Teardown(p) /\ P!Gone(p) /\ UNCHANGED task
      BY <1>3, <1>7 DEF P!PageTakesAck
    <2>2. phase'[p] = "out"
      BY <1>1, <2>1 DEF P!Gone, Typed, P!TypeOK
    <2> QED
      BY <1>1, <1>5, <1>7, <2>1, <2>2, Torn
  <1>8. CASE flow[p][1] = "ack" /\ m.ok
    <2>1. /\ P!Creates(p, m.who) /\ P!Tasks(p, P!Offers(m.who, peer'[p]))
      BY <1>3, <1>8 DEF P!PageTakesAck
    <2>2. peer'[p][q] = IF q \in m.who /\ peer[p][q] = P!NoPeer THEN P!Fresh(p, q) ELSE peer[p][q]
      BY <1>1, <2>1, CreatesOf
    <2>3. TasksFor(p, q)' = TasksFor(p, q) \cup {t \in P!Offers(m.who, peer'[p]) : t.who = q}
      BY <1>1, <2>1, TasksOf
    <2>4. \A x, n : P!Offer(x, n).who = x
      BY DEF P!Offer
    <2>5. {t \in P!Offers(m.who, peer'[p]) : t.who = q} =
              IF q \in m.who THEN {P!Offer(q, peer'[p][q].n)} ELSE {}
      BY <2>4 DEF P!Offers
    <2>6. CASE q \notin m.who
      BY <1>5, <2>2, <2>3, <2>5, <2>6, SamePends DEF Calm
    <2>7. CASE q \in m.who /\ peer[p][q] = P!NoPeer
      <3>1. PICK k \in Nat : k = P!Fresh(p, q).n
        BY <1>1, FreshHas
      <3>2. peer'[p][q] = P!Fresh(p, q)
        BY <2>2, <2>7
      <3>3. Has(p, q, k, "new", 0)'
        BY <1>1, <3>1, <3>2, FreshHas DEF Has
      <3>4. TasksFor(p, q)' = TasksFor(p, q) \cup {P!Offer(q, k)}
        BY <2>3, <2>5, <2>7, <3>1, <3>2
      <3> QED
        BY <2>7, <3>3, <3>4
    <2> QED
      BY <2>6, <2>7
  <1> QED
    BY <1>3, <1>6, <1>7, <1>8

LEMMA PhoneAckOf ==
    ASSUME MeshInv, MaxJoins = 1, NEW p \in P!People, P!PhoneTakesAck(p), NEW q \in P!People
    PROVE  LET m == Head(down[p]) IN
           /\ q \notin m.who => Calm(p, q)
           /\ phase'[p] # "out" /\ m.ok /\ q \in m.who /\ peer[p][q] = P!NoPeer =>
                 Comes(p, q, 0)' /\ TasksFor(p, q)' = TasksFor(p, q) \cup {P!Offer(q, 0)}
  <1> DEFINE m == Head(down[p])
  <1>1. OnceInv /\ Typed /\ PhaseOf(p) /\ p \in Phones /\ P!Attempts = {1}
    BY OnceFacts DEF MeshInv, P!PhoneTakesAck
  <1>2. /\ m \in FromServer /\ m.type = "ack" /\ down[p] # <<>> /\ down'[p] = Tail(down[p])
        /\ 1 \in 1..Len(down[p]) /\ m = down[p][1]
    BY <1>1, HearsHead DEF P!PhoneTakesAck
  <1>3. m.n = 1 /\ m.ok \in BOOLEAN /\ m.who \subseteq P!People
    BY <1>1, TakesTyped DEF P!PhoneTakesAck
  <1>4. phase[p] # "out" => flow[p][1] = "ack" /\ phase[p] = "opening"
    <2>1. phase[p] # "out" => flow[p][1] = "ack"
      BY <1>1, <1>2 DEF OnceInv, DownOrder
    <2>2. phase[p] \in {"out", "opening", "in"}
      BY <1>1 DEF Typed, P!TypeOK
    <2> QED
      BY <1>1, <2>1, <2>2 DEF PhaseOf
  <1>5. CASE phase[p] = "out"
    <2>1. UNCHANGED <<phase, peer, task, creating>>
      BY <1>3, <1>5 DEF P!PhoneTakesAck
    <2> QED
      BY <1>5, <2>1, Nothing
  <1>6. CASE phase[p] # "out" /\ ~m.ok
    <2>1. P!Fail(p) /\ UNCHANGED <<task, creating>>
      BY <1>3, <1>4, <1>6 DEF P!PhoneTakesAck
    <2>2. phase'[p] = "out" /\ P!Teardown(p)
      BY <1>1, <2>1 DEF P!Fail, P!Gone, Typed, P!TypeOK
    <2> QED
      BY <1>1, <1>6, <2>1, <2>2, Torn
  <1>7. CASE phase[p] # "out" /\ m.ok
    <2>1. /\ P!Ensures(p, m.who) /\ peer' = peer
          /\ P!Tasks(p, P!Offers(P!Ensured(p, m.who), peer[p]))
      BY <1>3, <1>4, <1>7 DEF P!PhoneTakesAck
    <2>2. local[p] = 1
      BY <1>2, <1>7, Streaming
    <2>3. Pends(p, q)' <=> Pends(p, q) \/ (q \in m.who /\ peer[p][q] = P!NoPeer)
      BY <1>1, <2>1, <2>2, EnsuresOf
    <2>4. TasksFor(p, q)' =
              TasksFor(p, q) \cup {t \in P!Offers(P!Ensured(p, m.who), peer[p]) : t.who = q}
      BY <1>1, <2>1, TasksOf
    <2>5. \A x, n : P!Offer(x, n).who = x
      BY DEF P!Offer
    <2>6. P!Ensured(p, m.who) = m.who
      BY <2>2 DEF P!Ensured
    <2>7. {t \in P!Offers(m.who, peer[p]) : t.who = q} =
              IF q \in m.who THEN {P!Offer(q, peer[p][q].n)} ELSE {}
      BY <2>5 DEF P!Offers
    <2>8. CASE q \notin m.who
      BY <2>1, <2>3, <2>4, <2>6, <2>7, <2>8 DEF Calm
    <2>9. CASE q \in m.who /\ peer[p][q] = P!NoPeer
      <3>1. peer[p][q].n = 0
        BY <2>9 DEF P!NoPeer
      <3> QED
        BY <2>1, <2>3, <2>4, <2>6, <2>7, <2>9, <3>1 DEF Comes
    <2> QED
      BY <2>8, <2>9
  <1> QED
    BY <1>3, <1>5, <1>6, <1>7

LEMMA AckOf ==
    ASSUME MeshInv, MaxJoins = 1, NEW p \in P!People, P!PageTakesAck(p) \/ P!PhoneTakesAck(p),
           NEW q \in P!People
    PROVE  LET m == Head(down[p]) IN
           /\ q \notin m.who => Calm(p, q)
           /\ phase'[p] # "out" /\ m.ok /\ q \in m.who /\ peer[p][q] = P!NoPeer => \E k \in Nat :
                 /\ Comes(p, q, k)' \/ Has(p, q, k, "new", 0)'
                 /\ TasksFor(p, q)' = TasksFor(p, q) \cup {P!Offer(q, k)}
  BY PageAckOf, PhoneAckOf

\* Who has entered gets a connection, who has left has none any more; a candidate makes one in
\* a page.
LEMMA NewsOf ==
    ASSUME MeshInv, MaxJoins = 1, NEW p \in P!People,
           \/ P!PageTakesJoined(p) \/ P!PhoneTakesJoined(p)
           \/ P!PageTakesIce(p) \/ P!PhoneTakesIce(p)
           \/ P!PageTakesLeft(p) \/ P!PhoneTakesLeft(p),
           NEW q \in P!People
    PROVE  LET m == Head(down[p]) IN
           /\ m.who # q => Calm(p, q)
           /\ m.type \in {"joined", "ice"} => Calm(p, q) \/ Opens(p, q)
  <1> DEFINE m == Head(down[p])
  <1>1. Typed
    BY DEF MeshInv, OnceInv
  <1>2. task' = task
    BY DEF P!PageTakesJoined, P!PhoneTakesJoined, P!PageTakesIce, P!PhoneTakesIce,
       P!PageTakesLeft, P!PhoneTakesLeft
  <1>3. TasksFor(p, q)' = TasksFor(p, q)
    BY <1>2, SameTasks
  <1>4. CASE P!PageTakesJoined(p) \/ P!PageTakesIce(p)
    <2>1. /\ creating' = creating
          /\ P!Creates(p, IF phase[p] = "out" THEN {} ELSE {m.who})
      BY <1>4 DEF P!PageTakesJoined, P!PageTakesIce
    <2>2. Pends(p, q)' <=> Pends(p, q)
      BY <2>1, SamePends
    <2>3. \/ peer'[p][q] = peer[p][q]
          \/ q = m.who /\ peer[p][q] = P!NoPeer /\ peer'[p][q] = P!Fresh(p, q)
      BY <1>1, <2>1, CreatesOf
    <2>4. CASE peer'[p][q] = peer[p][q]
      BY <1>3, <2>2, <2>4 DEF Calm
    <2>5. CASE q = m.who /\ peer[p][q] = P!NoPeer /\ peer'[p][q] = P!Fresh(p, q)
      <3>1. ~Pends(p, q)
        <4>1. p \in Pages
          BY <1>4 DEF P!PageTakesJoined, P!PageTakesIce, P!PageHears
        <4>2. creating[p] = {}
          BY <4>1 DEF MeshInv, OnceInv, Phases, PhaseOf
        <4> QED
          BY <4>2 DEF Pends, P!Pending
      <3>2. PICK k \in Nat : k = P!Fresh(p, q).n
        BY <1>1, FreshHas
      <3>3. Has(p, q, k, "new", 0)'
        BY <1>1, <2>5, <3>2, FreshHas DEF Has
      <3> QED
        BY <1>3, <2>5, <3>1, <3>3 DEF Opens
    <2>6. m.type \in {"joined", "ice"}
      BY <1>1, <1>4, HearsHead DEF P!PageTakesJoined, P!PageTakesIce, P!PageHears
    <2> QED
      BY <2>3, <2>4, <2>5
  <1>5. CASE P!PhoneTakesJoined(p)
    <2>1. /\ peer' = peer
          /\ IF phase[p] = "out" THEN creating' = creating ELSE P!Ensures(p, {m.who})
      BY <1>5 DEF P!PhoneTakesJoined
    <2>2. \/ Pends(p, q)' <=> Pends(p, q)
          \/ q = m.who /\ peer[p][q] = P!NoPeer /\ Pends(p, q)'
      BY <1>1, <2>1, EnsuresOf, SamePends
    <2>3. CASE Pends(p, q)' <=> Pends(p, q)
      BY <1>3, <2>1, <2>3 DEF Calm
    <2>4. CASE ~Pends(p, q) /\ q = m.who /\ peer[p][q] = P!NoPeer /\ Pends(p, q)'
      <3>1. Comes(p, q, 0)'
        BY <2>1, <2>4 DEF Comes
      <3> QED
        BY <1>3, <2>4, <3>1 DEF Opens
    <2> QED
      BY <2>2, <2>3, <2>4
  <1>6. CASE P!PageTakesLeft(p) \/ P!PhoneTakesLeft(p)
    <2>1. creating' = creating /\ peer' = [peer EXCEPT ![p][m.who] = P!NoPeer]
      BY <1>6 DEF P!PageTakesLeft, P!PhoneTakesLeft
    <2>2. m.type = "left" /\ m.who \in P!People
      BY <1>1, <1>6, TakesTyped DEF P!PageTakesLeft, P!PhoneTakesLeft, P!PageHears, P!PhoneHears
    <2>3. m.who # q => peer'[p][q] = peer[p][q]
      BY <1>1, <2>1, <2>2 DEF Typed, P!TypeOK
    <2> QED
      BY <1>3, <2>1, <2>2, <2>3, SamePends DEF Calm
  <1>7. CASE P!PhoneTakesIce(p)
    BY <1>7, Nothing DEF P!PhoneTakesIce
  <1> QED
    BY <1>4, <1>5, <1>6, <1>7

LEMMA EndedOf ==
    ASSUME MeshInv, NEW p \in P!People, P!PageTakesEnded(p) \/ P!PhoneTakesEnded(p),
           NEW q \in P!People
    PROVE  Calm(p, q)
  <1>1. Typed
    BY DEF MeshInv, OnceInv
  <1>2. UNCHANGED <<creating, task>>
    BY DEF P!PageTakesEnded, P!PhoneTakesEnded, P!Still
  <1>3. peer' = peer \/ (P!Teardown(p) /\ P!Gone(p))
    BY DEF P!PageTakesEnded, P!PhoneTakesEnded, P!Fail
  <1>4. P!Gone(p) => phase'[p] = "out"
    BY <1>1 DEF P!Gone, Typed, P!TypeOK
  <1> QED
    BY <1>1, <1>2, <1>3, <1>4, Nothing, Torn

\* A description is applied.
LEMMA AppliedHas ==
    ASSUME NEW pc \in P!Peer, NEW n \in Nat
    PROVE  LET new == P!Applied(pc, n) IN new.n = pc.n /\ new.st = "remote" /\ new.with = n
  BY DEF P!Applied, P!Peer

LEMMA AnswerOf ==
    ASSUME Typed, NEW p \in P!People, NEW m, m.who \in P!People, P!Answered(p, m),
           phase[p] # "out", NEW q \in P!People
    PROVE  /\ m.who # q => Calm(p, q)
           /\ m.who = q /\ (\E k \in Nat : Has(p, q, k, "offered", 0)) =>
                 /\ TasksFor(p, q)' = TasksFor(p, q)
                 /\ \A k \in Nat : Has(p, q, k, "offered", 0) => Has(p, q, k, "stable", m.n)'
  <1>1. creating' = creating /\ task' = task
    BY DEF P!Answered
  <1>2. (Pends(p, q)' <=> Pends(p, q)) /\ TasksFor(p, q)' = TasksFor(p, q)
    BY <1>1, SamePends, SameTasks
  <1>3. peer' = IF peer[p][m.who].st = "offered"
                THEN [peer EXCEPT ![p][m.who].st = "stable", ![p][m.who].with = m.n]
                ELSE peer
    BY DEF P!Answered
  <1>4. peer[p][m.who] \in P!Peer
    BY PeerFacts
  <1>5. PICK new : new = [peer[p][m.who] EXCEPT !.st = "stable", !.with = m.n]
    OBVIOUS
  <1>6. new.n = peer[p][m.who].n /\ new.st = "stable" /\ new.with = m.n
    BY <1>4, <1>5 DEF P!Peer
  <1>7. peer[p][m.who].st = "offered" =>
            \A x \in P!People : peer'[p][x] = IF x = m.who THEN new ELSE peer[p][x]
    <2> SUFFICES ASSUME peer[p][m.who].st = "offered"
                 PROVE  \A x \in P!People : peer'[p][x] = IF x = m.who THEN new ELSE peer[p][x]
      OBVIOUS
    <2>1. peer' = [peer EXCEPT ![p][m.who] = new]
      BY <1>3, <1>5 DEF Typed, P!TypeOK
    <2> QED
      BY <2>1 DEF Typed, P!TypeOK
  <1>8. m.who # q => peer'[p][q] = peer[p][q]
    BY <1>3, <1>7
  <1>9. ASSUME m.who = q, NEW k \in Nat, Has(p, q, k, "offered", 0)
        PROVE  Has(p, q, k, "stable", m.n)'
    <2>1. peer[p][m.who].st = "offered" /\ peer[p][q].n = k /\ k # 0
      BY <1>9 DEF Has
    <2>2. peer'[p][q] = new
      BY <1>7, <1>9, <2>1
    <2> QED
      BY <1>6, <1>9, <2>1, <2>2 DEF Has
  <1> QED
    BY <1>2, <1>8, <1>9 DEF Calm

LEMMA PageSdpOf ==
    ASSUME MeshInv, MaxJoins = 1, NEW p \in P!People, P!PageTakesSdp(p), NEW q \in P!People,
           NEW m \in FromServer, m = Head(down[p])
    PROVE  /\ m.who # q => Calm(p, q)
           /\ m.who = q /\ m.op = "offer" /\ phase[p] # "out" /\ Bare(p, q) => \E k \in Nat :
                 /\ Has(p, q, k, "remote", m.n)'
                 /\ TasksFor(p, q)' = TasksFor(p, q) \cup {P!Answer(q, k, m.n)}
           /\ m.who = q /\ m.op = "answer" /\ phase[p] # "out"
              /\ (\E k \in Nat : Has(p, q, k, "offered", 0)) =>
                 /\ TasksFor(p, q)' = TasksFor(p, q)
                 /\ \A k \in Nat : Has(p, q, k, "offered", 0) => Has(p, q, k, "stable", m.n)'
  <1>1. Typed
    BY DEF MeshInv, OnceInv
  <1>2. m.type = "sdp" /\ m.who \in P!People /\ m.n \in Nat /\ m.op \in {"offer", "answer"}
    BY <1>1, TakesTyped DEF P!PageTakesSdp, P!PageHears
  <1>3. CASE phase[p] = "out"
    <2>1. UNCHANGED <<peer, task, creating>>
      BY <1>3 DEF P!PageTakesSdp
    <2> QED
      BY <1>3, <2>1, Nothing
  <1>4. CASE phase[p] # "out" /\ m.op = "answer"
    <2>1. P!Answered(p, m)
      BY <1>4 DEF P!PageTakesSdp
    <2> QED
      BY <1>1, <1>2, <1>4, <2>1, AnswerOf
  <1>5. CASE phase[p] # "out" /\ m.op = "offer"
    <2>1. PICK pc : pc = IF peer[p][m.who] = P!NoPeer THEN P!Fresh(p, m.who) ELSE peer[p][m.who]
      OBVIOUS
    <2>2. /\ peer' = [peer EXCEPT ![p][m.who] = P!Applied(pc, m.n)]
          /\ P!Tasks(p, {P!Answer(m.who, pc.n, m.n)}) /\ creating' = creating
      BY <1>2, <1>5, <2>1 DEF P!PageTakesSdp
    <2>3. pc \in P!Peer /\ pc.n \in Nat /\ (Bare(p, m.who) => pc.n # 0)
      <3>1. local[p] \in 0..MaxJoins /\ peer[p][m.who] \in P!Peer
            /\ Latest(peer[p][m.who], made[p][m.who])
        BY <1>1, <1>2, PeerFacts
      <3>2. P!Fresh(p, m.who) \in P!Peer /\ P!Fresh(p, m.who).n # 0
        BY <1>1, <1>2, <3>1, FreshTyped, FreshHas
      <3>3. pc \in P!Peer
        BY <2>1, <3>1, <3>2
      <3>4. pc.n # 0
        BY <2>1, <3>1, <3>2 DEF Latest
      <3> QED
        BY <3>3, <3>4 DEF P!Peer
    <2>4. peer'[p][q] = IF q = m.who THEN P!Applied(pc, m.n) ELSE peer[p][q]
      BY <1>1, <1>2, <2>2 DEF Typed, P!TypeOK
    <2>5. TasksFor(p, q)' =
              TasksFor(p, q) \cup {t \in {P!Answer(m.who, pc.n, m.n)} : t.who = q}
      BY <1>1, <2>2, TasksOf
    <2>6. P!Answer(m.who, pc.n, m.n).who = m.who
      BY DEF P!Answer
    <2>7. CASE m.who # q
      BY <2>2, <2>4, <2>5, <2>6, <2>7, SamePends DEF Calm
    <2>8. CASE m.who = q /\ Bare(p, q)
      <3>1. Has(p, q, pc.n, "remote", m.n)'
        BY <1>2, <2>3, <2>4, <2>8, AppliedHas DEF Has
      <3>2. TasksFor(p, q)' = TasksFor(p, q) \cup {P!Answer(q, pc.n, m.n)}
        BY <2>5, <2>6, <2>8
      <3> QED
        BY <1>5, <2>3, <2>8, <3>1, <3>2
    <2> QED
      BY <1>5, <2>7, <2>8
  <1> QED
    BY <1>2, <1>3, <1>4, <1>5

LEMMA PhoneSdpOf ==
    ASSUME MeshInv, MaxJoins = 1, NEW p \in P!People, P!PhoneTakesSdp(p), NEW q \in P!People,
           NEW m \in FromServer, m = Head(down[p])
    PROVE  /\ m.who # q => Calm(p, q)
           /\ m.who = q /\ m.op = "offer" /\ phase[p] # "out" /\ Bare(p, q) => \E k \in Nat :
                 /\ Comes(p, q, k)' \/ Has(p, q, k, "remote", m.n)'
                 /\ TasksFor(p, q)' = TasksFor(p, q) \cup {P!Answer(q, k, m.n)}
           /\ m.who = q /\ m.op = "answer" /\ phase[p] # "out"
              /\ (\E k \in Nat : Has(p, q, k, "offered", 0)) =>
                 /\ TasksFor(p, q)' = TasksFor(p, q)
                 /\ \A k \in Nat : Has(p, q, k, "offered", 0) => Has(p, q, k, "stable", m.n)'
  <1>1. Typed
    BY DEF MeshInv, OnceInv
  <1>2. /\ m.type = "sdp" /\ m.who \in P!People /\ m.n \in Nat /\ m.op \in {"offer", "answer"}
        /\ down[p] # <<>>
    BY <1>1, HearsHead, TakesTyped DEF P!PhoneTakesSdp, P!PhoneHears
  <1>3. CASE phase[p] = "out"
    <2>1. UNCHANGED <<peer, task, creating>>
      BY <1>3 DEF P!PhoneTakesSdp
    <2> QED
      BY <1>3, <2>1, Nothing
  <1>4. CASE phase[p] # "out" /\ m.op = "answer"
    <2>1. P!Answered(p, m)
      BY <1>4 DEF P!PhoneTakesSdp
    <2> QED
      BY <1>1, <1>2, <1>4, <2>1, AnswerOf
  <1>5. \A k, n : P!Answer(m.who, k, n).who = m.who
    BY DEF P!Answer
  <1>6. CASE phase[p] # "out" /\ m.op = "offer" /\ peer[p][m.who] # P!NoPeer
    <2>1. PICK pc : pc = peer[p][m.who]
      OBVIOUS
    <2>2. pc \in P!Peer /\ pc.n \in Nat /\ pc.n # 0
      BY <1>1, <1>2, <1>6, <2>1, PeerFacts DEF Latest
    <2>3. /\ creating' = creating
          /\ \/ /\ peer' = [peer EXCEPT ![p][m.who] = P!Applied(pc, m.n)]
                /\ P!Tasks(p, {P!Answer(m.who, pc.n, m.n)})
             \/ pc.st = "offered" /\ peer' = peer /\ task' = task
      BY <1>2, <1>6, <2>1 DEF P!PhoneTakesSdp
    <2>4. CASE pc.st = "offered" /\ peer' = peer /\ task' = task
      <3>1. Calm(p, q)
        BY <2>3, <2>4, Nothing
      <3>2. ~Bare(p, m.who)
        BY <1>6, <2>1, <2>4 DEF Bare
      <3> QED
        BY <1>6, <3>1, <3>2
    <2>5. CASE /\ peer' = [peer EXCEPT ![p][m.who] = P!Applied(pc, m.n)]
               /\ P!Tasks(p, {P!Answer(m.who, pc.n, m.n)})
      <3>1. peer'[p][q] = IF q = m.who THEN P!Applied(pc, m.n) ELSE peer[p][q]
        BY <1>1, <1>2, <2>5 DEF Typed, P!TypeOK
      <3>2. TasksFor(p, q)' =
                TasksFor(p, q) \cup {t \in {P!Answer(m.who, pc.n, m.n)} : t.who = q}
        BY <1>1, <2>5, TasksOf
      <3>3. CASE m.who # q
        BY <1>5, <2>3, <3>1, <3>2, <3>3, SamePends DEF Calm
      <3>4. CASE m.who = q
        <4>1. Has(p, q, pc.n, "remote", m.n)'
          BY <1>2, <2>2, <3>1, <3>4, AppliedHas DEF Has
        <4>2. TasksFor(p, q)' = TasksFor(p, q) \cup {P!Answer(q, pc.n, m.n)}
          BY <1>5, <3>2, <3>4
        <4> QED
          BY <1>6, <2>2, <3>4, <4>1, <4>2
      <3> QED
        BY <3>3, <3>4
    <2> QED
      BY <2>3, <2>4, <2>5
  <1>7. CASE phase[p] # "out" /\ m.op = "offer" /\ peer[p][m.who] = P!NoPeer
    <2>1. /\ P!Ensures(p, {m.who}) /\ peer' = peer
          /\ P!Tasks(p, {P!Answer(x, 0, m.n) : x \in P!Ensured(p, {m.who})})
      BY <1>2, <1>7 DEF P!PhoneTakesSdp
    <2>2. local[p] = 1
      BY <1>2, <1>7, Streaming
    <2>3. P!Ensured(p, {m.who}) = {m.who}
      BY <2>2 DEF P!Ensured
    <2>4. Pends(p, q)' <=> Pends(p, q) \/ q = m.who
      BY <1>1, <1>7, <2>1, <2>2, EnsuresOf
    <2>5. TasksFor(p, q)' = TasksFor(p, q) \cup {t \in {P!Answer(m.who, 0, m.n)} : t.who = q}
      <3>1. {P!Answer(x, 0, m.n) : x \in P!Ensured(p, {m.who})} = {P!Answer(m.who, 0, m.n)}
        BY <2>3
      <3>2. P!Tasks(p, {P!Answer(m.who, 0, m.n)})
        BY <2>1, <3>1
      <3> QED
        BY <1>1, <3>2, TasksOf
    <2>6. CASE m.who # q
      BY <1>5, <2>1, <2>4, <2>5, <2>6 DEF Calm
    <2>7. CASE m.who = q
      <3>1. Comes(p, q, 0)'
        BY <1>7, <2>1, <2>4, <2>7 DEF Comes
      <3>2. TasksFor(p, q)' = TasksFor(p, q) \cup {P!Answer(q, 0, m.n)}
        BY <1>5, <2>5, <2>7
      <3> QED
        BY <1>7, <2>7, <3>1, <3>2
    <2> QED
      BY <2>6, <2>7
  <1> QED
    BY <1>2, <1>3, <1>4, <1>6, <1>7
-----------------------------------------------------------------------------
\* How far x has got with y stays as it is ...
Kept(x, y) ==
    /\ Unasked(x, y) => Unasked(x, y)'
    /\ Entered(x, y) => Entered(x, y)'
    /\ Preparing(x, y) => Preparing(x, y)'
    /\ \A k \in Nat : /\ Asked(x, y, k) => Asked(x, y, k)'
                      /\ Answering(x, y, k) => Answering(x, y, k)'
                      /\ Proposed(x, y, k) => Proposed(x, y, k)'
                      /\ Waits(x, y, k) => Waits(x, y, k)'
    /\ \A k, n \in Nat : /\ Replied(x, y, k, n) => Replied(x, y, k, n)'
                         /\ Done(x, y, k, n) => Done(x, y, k, n)'
                         /\ Replying(x, y, k, n) => Replying(x, y, k, n)'

\* ... or x takes the next step.
Advances(x, y) ==
    /\ Unasked(x, y) => Unasked(x, y)'
    /\ Entered(x, y) => Entered(x, y)' \/ Preparing(x, y)'
    /\ Preparing(x, y) => Preparing(x, y)' \/ \E k \in Nat : Proposed(x, y, k)'
    /\ \A k \in Nat : /\ Asked(x, y, k) => Asked(x, y, k)' \/ Answering(x, y, k)'
                      /\ Answering(x, y, k) =>
                            Answering(x, y, k)' \/ \E j \in Nat : Replied(x, y, j, k)'
                      /\ Proposed(x, y, k) => Proposed(x, y, k)'
                      /\ Waits(x, y, k) => Waits(x, y, k)'
    /\ \A k, n \in Nat : /\ Replied(x, y, k, n) => Replied(x, y, k, n)'
                         /\ Done(x, y, k, n) => Done(x, y, k, n)'
                         /\ Replying(x, y, k, n) => Replying(x, y, k, n)' \/ Done(x, y, k, n)'

\* What y may have to do with x is neither taken away nor added.
Passes(x, y) ==
    /\ \A D : Only(down[x], About(y), D) => Only(down'[x], About(y), D)
    /\ \A U : Only(up[x], To(y), U) => Only(up'[x], To(y), U)

LEMMA KeptAdvances ==
    ASSUME NEW x, NEW y, Kept(x, y)
    PROVE  Advances(x, y)
  BY DEF Kept, Advances

LEMMA KeptBy ==
    ASSUME NEW x, NEW y, Passes(x, y), TasksFor(x, y)' = TasksFor(x, y),
           Pends(x, y)' <=> Pends(x, y), peer'[x][y] = peer[x][y]
    PROVE  Kept(x, y)
  <1>1. \A D, U, T : Side(x, y, D, U, T) => Side(x, y, D, U, T)'
    BY DEF Side, Passes
  <1>2. Bare(x, y) => Bare(x, y)'
    BY DEF Bare
  <1>3. \A k : Comes(x, y, k) => Comes(x, y, k)'
    BY DEF Comes
  <1>4. \A k, st, n : Has(x, y, k, st, n) => Has(x, y, k, st, n)'
    BY DEF Has
  <1>5. /\ Unasked(x, y) => Unasked(x, y)'
        /\ Entered(x, y) => Entered(x, y)'
    BY <1>1, <1>2 DEF Unasked, Entered
  <1>6. Preparing(x, y) => Preparing(x, y)'
    BY <1>1, <1>3, <1>4 DEF Preparing
  <1>7. \A k \in Nat : /\ Asked(x, y, k) => Asked(x, y, k)'
                       /\ Proposed(x, y, k) => Proposed(x, y, k)'
                       /\ Waits(x, y, k) => Waits(x, y, k)'
    BY <1>1, <1>2, <1>4 DEF Asked, Proposed, Waits
  <1>8. \A k \in Nat : Answering(x, y, k) => Answering(x, y, k)'
    BY <1>1, <1>3, <1>4 DEF Answering
  <1>9. \A k, n \in Nat : /\ Replied(x, y, k, n) => Replied(x, y, k, n)'
                          /\ Done(x, y, k, n) => Done(x, y, k, n)'
                          /\ Replying(x, y, k, n) => Replying(x, y, k, n)'
    BY <1>1, <1>4 DEF Replied, Done, Replying
  <1> QED
    BY <1>5, <1>6, <1>7, <1>8, <1>9 DEF Kept

LEMMA SameKept ==
    ASSUME NEW x, NEW y, down'[x] = down[x], up'[x] = up[x], task'[x] = task[x],
           creating'[x] = creating[x], peer'[x] = peer[x]
    PROVE  Kept(x, y) /\ (Apart(x, y) => Apart(x, y)')
  <1>1. TasksFor(x, y)' = TasksFor(x, y) /\ (Pends(x, y)' <=> Pends(x, y))
    BY SameTasks, SamePends
  <1>2. Passes(x, y)
    BY DEF Passes
  <1> QED
    BY <1>1, <1>2, KeptBy DEF Apart, Side

LEMMA OpensKept ==
    ASSUME NEW x, NEW y, Passes(x, y), Opens(x, y), ~Entered(x, y)
    PROVE  Kept(x, y)
  <1>1. \A D, U, T : Side(x, y, D, U, T) => Side(x, y, D, U, T)'
    BY DEF Side, Passes, Opens
  <1>2. Bare(x, y)'
    BY DEF Opens, Comes, Has, Bare
  <1>3. \A k, st, n : ~Comes(x, y, k) /\ ~Has(x, y, k, st, n)
    BY DEF Opens, Comes, Has, P!NoPeer
  <1>4. /\ ~Preparing(x, y)
        /\ \A k \in Nat : ~Answering(x, y, k) /\ ~Proposed(x, y, k) /\ ~Waits(x, y, k)
        /\ \A k, n \in Nat : ~Replied(x, y, k, n) /\ ~Done(x, y, k, n) /\ ~Replying(x, y, k, n)
    BY <1>3 DEF Preparing, Answering, Proposed, Waits, Replied, Done, Replying
  <1>5. /\ Unasked(x, y) => Unasked(x, y)'
        /\ \A k \in Nat : Asked(x, y, k) => Asked(x, y, k)'
    BY <1>1, <1>2 DEF Unasked, Asked
  <1> QED
    BY <1>4, <1>5 DEF Kept

\* A pair goes on when one of the two takes a step.
LEMMA PairAdvances ==
    ASSUME NEW x, NEW y, Advances(x, y), Kept(y, x)
    PROVE  /\ Negotiate(x, y) => Negotiate(x, y)'
           /\ Negotiate(y, x) => Negotiate(y, x)'
  <1>1. Negotiate(x, y) => Negotiate(x, y)'
    <2>1. CASE Unasked(y, x) /\ (Entered(x, y) \/ Preparing(x, y) \/ \E k \in Nat : Proposed(x, y, k))
      BY <2>1 DEF Advances, Kept, Negotiate
    <2>2. ASSUME NEW k \in Nat, Waits(x, y, k),
                 Asked(y, x, k) \/ Answering(y, x, k) \/ \E j \in Nat : Replied(y, x, j, k)
          PROVE  Negotiate(x, y)'
      BY <2>2 DEF Advances, Kept, Negotiate
    <2>3. ASSUME NEW k \in Nat, NEW j \in Nat, Done(y, x, j, k), Replying(x, y, k, j) \/ Done(x, y, k, j)
          PROVE  Negotiate(x, y)'
      BY <2>3 DEF Advances, Kept, Negotiate
    <2> QED
      BY <2>1, <2>2, <2>3 DEF Negotiate
  <1>2. Negotiate(y, x) => Negotiate(y, x)'
    <2>1. CASE Unasked(x, y) /\ (Entered(y, x) \/ Preparing(y, x) \/ \E k \in Nat : Proposed(y, x, k))
      BY <2>1 DEF Advances, Kept, Negotiate
    <2>2. ASSUME NEW k \in Nat, Waits(y, x, k),
                 Asked(x, y, k) \/ Answering(x, y, k) \/ \E j \in Nat : Replied(x, y, j, k)
          PROVE  Negotiate(y, x)'
      BY <2>2 DEF Advances, Kept, Negotiate
    <2>3. ASSUME NEW k \in Nat, NEW j \in Nat, Done(x, y, j, k), Replying(y, x, k, j) \/ Done(y, x, k, j)
          PROVE  Negotiate(y, x)'
      BY <2>3 DEF Advances, Kept, Negotiate
    <2> QED
      BY <2>1, <2>2, <2>3 DEF Negotiate
  <1> QED
    BY <1>1, <1>2
-----------------------------------------------------------------------------
\* What p hears.
LEMMA ListensHears ==
    ASSUME MeshInv, MaxJoins = 1, NEW p \in P!People, Listens(p)
    PROVE  LET m == Head(down[p]) IN
           /\ m \in FromServer /\ down[p] # <<>> /\ down[p] \in Seq(FromServer)
           /\ down'[p] = Tail(down[p]) /\ up'[p] = up[p]
           /\ phase'[p] # "out" => phase[p] # "out" /\ ~Dooms(m)
           /\ 1 \in 1..Len(down[p]) /\ m = down[p][1]
           /\ m.type \in {"ack", "joined", "ice", "left", "ended", "sdp"}
           /\ m.type = "ack" => P!PageTakesAck(p) \/ P!PhoneTakesAck(p)
           /\ m.type = "joined" => P!PageTakesJoined(p) \/ P!PhoneTakesJoined(p)
           /\ m.type = "ice" => P!PageTakesIce(p) \/ P!PhoneTakesIce(p)
           /\ m.type = "left" => P!PageTakesLeft(p) \/ P!PhoneTakesLeft(p)
           /\ m.type = "ended" => P!PageTakesEnded(p) \/ P!PhoneTakesEnded(p)
           /\ m.type = "sdp" => P!PageTakesSdp(p) \/ P!PhoneTakesSdp(p)
  <1> DEFINE m == Head(down[p])
  <1>1. OnceInv /\ Typed
    BY DEF MeshInv, OnceInv
  <1>2. Heard(p, m)
    BY <1>1, PageAckStep, PageNewsStep, EndedStep, PageSdpStep, PhoneAckStep, PhoneNewsStep,
       PhoneSdpStep DEF Listens
  <1>3. m \in FromServer /\ down[p] # <<>> /\ down[p] \in Seq(FromServer)
    BY <1>1, <1>2, HeadFacts DEF Heard, Typed
  <1>4. 1 \in 1..Len(down[p]) /\ m = down[p][1]
    BY <1>1, <1>2, <1>3, HeardFacts
  <1>5. /\ P!PageTakesAck(p) \/ P!PhoneTakesAck(p) => m.type = "ack"
        /\ P!PageTakesJoined(p) \/ P!PhoneTakesJoined(p) => m.type = "joined"
        /\ P!PageTakesIce(p) \/ P!PhoneTakesIce(p) => m.type = "ice"
        /\ P!PageTakesLeft(p) \/ P!PhoneTakesLeft(p) => m.type = "left"
        /\ P!PageTakesEnded(p) \/ P!PhoneTakesEnded(p) => m.type = "ended"
        /\ P!PageTakesSdp(p) \/ P!PhoneTakesSdp(p) => m.type = "sdp"
    BY DEF P!PageTakesAck, P!PhoneTakesAck, P!PageTakesJoined, P!PhoneTakesJoined,
       P!PageTakesIce, P!PhoneTakesIce, P!PageTakesLeft, P!PhoneTakesLeft, P!PageTakesEnded,
       P!PhoneTakesEnded, P!PageTakesSdp, P!PhoneTakesSdp, P!PageHears, P!PhoneHears, P!Takes
  <1>6. \/ P!PageTakesAck(p) \/ P!PhoneTakesAck(p)
        \/ P!PageTakesJoined(p) \/ P!PhoneTakesJoined(p)
        \/ P!PageTakesIce(p) \/ P!PhoneTakesIce(p)
        \/ P!PageTakesLeft(p) \/ P!PhoneTakesLeft(p)
        \/ P!PageTakesEnded(p) \/ P!PhoneTakesEnded(p)
        \/ P!PageTakesSdp(p) \/ P!PhoneTakesSdp(p)
    BY DEF Listens
  <1>7. down'[p] = Tail(down[p]) /\ up'[p] = up[p]
        /\ (phase'[p] # "out" => phase[p] # "out" /\ ~Dooms(m))
    BY <1>2 DEF Heard
  <1> HIDE DEF m
  <1> QED
    BY <1>3, <1>4, <1>5, <1>6, <1>7 DEF m

LEMMA SdpOf ==
    ASSUME MeshInv, MaxJoins = 1, NEW p \in P!People, P!PageTakesSdp(p) \/ P!PhoneTakesSdp(p),
           NEW q \in P!People, NEW m \in FromServer, m = Head(down[p])
    PROVE  /\ m.who # q => Calm(p, q)
           /\ m.who = q /\ m.op = "offer" /\ phase[p] # "out" /\ Bare(p, q) => \E k \in Nat :
                 /\ Comes(p, q, k)' \/ Has(p, q, k, "remote", m.n)'
                 /\ TasksFor(p, q)' = TasksFor(p, q) \cup {P!Answer(q, k, m.n)}
           /\ m.who = q /\ m.op = "answer" /\ phase[p] # "out"
              /\ (\E k \in Nat : Has(p, q, k, "offered", 0)) =>
                 /\ TasksFor(p, q)' = TasksFor(p, q)
                 /\ \A k \in Nat : Has(p, q, k, "offered", 0) => Has(p, q, k, "stable", m.n)'
  BY PageSdpOf, PhoneSdpOf

LEMMA HeardCalm ==
    ASSUME MeshInv, MaxJoins = 1, NEW p \in P!People, Listens(p), NEW q \in P!People,
           Head(down[p]) \notin About(q),
           Head(down[p]).type \in {"joined", "left", "ice"} => Head(down[p]).who # q
    PROVE  Calm(p, q)
  <1>1. PICK m \in FromServer : m = Head(down[p])
    BY ListensHears
  <1>2. (m.type = "ack" => q \notin m.who) /\ (m.type = "sdp" => m.who # q)
    BY <1>1 DEF About
  <1>3. CASE m.type = "ack"
    BY <1>1, <1>2, <1>3, ListensHears, AckOf
  <1>4. CASE m.type \in {"joined", "left", "ice"}
    BY <1>1, <1>4, ListensHears, NewsOf
  <1>5. CASE m.type = "ended"
    BY <1>1, <1>5, ListensHears, EndedOf
  <1>6. CASE m.type = "sdp"
    BY <1>1, <1>2, <1>6, ListensHears, SdpOf
  <1> QED
    BY <1>1, <1>3, <1>4, <1>5, <1>6, ListensHears

LEMMA HeardPasses ==
    ASSUME MeshInv, MaxJoins = 1, NEW p \in P!People, Listens(p), NEW q \in P!People,
           Head(down[p]) \notin About(q)
    PROVE  Passes(p, q)
  <1>1. /\ down[p] \in Seq(FromServer) /\ down[p] # <<>>
        /\ down'[p] = Tail(down[p]) /\ up'[p] = up[p]
    BY ListensHears
  <1> QED
    BY <1>1, Skipped DEF Passes

LEMMA HeardAbout ==
    ASSUME MeshInv, MaxJoins = 1, NEW p \in P!People, Listens(p), NEW q \in P!People,
           Head(down[p]) \in About(q), NEW D, NEW U, NEW T, Side(p, q, D, U, T)
    PROVE  /\ Head(down[p]) \in D
           /\ \A V : TasksFor(p, q)' = V => Side(p, q, {}, U, V)'
  <1>1. /\ down[p] \in Seq(FromServer) /\ down[p] # <<>>
        /\ down'[p] = Tail(down[p]) /\ up'[p] = up[p]
    BY ListensHears
  <1>2. Head(down[p]) \in D /\ Only(down'[p], About(q), {})
    BY <1>1, Taken DEF Side
  <1> QED
    BY <1>1, <1>2 DEF Side

LEMMA ListensAdvances ==
    ASSUME MeshInv, Typed', MaxJoins = 1, NEW p \in P!People, Listens(p),
           NEW q \in P!People, q # p, Settled(p)', Settled(q)'
    PROVE  Advances(p, q)
  <1>1. OnceInv /\ Step(p)
    BY OnceSteps DEF MeshInv
  <1>2. Settled(p) /\ Settled(q)
    BY <1>1, SettledBefore
  <1>3. phase[p] # "out" /\ phase'[p] # "out" /\ q \in room
    BY <1>1, <1>2 DEF Settled, OnceInv, SettledSee
  <1>4. PICK m \in FromServer : m = Head(down[p])
    BY ListensHears
  <1>5. /\ ~Dooms(m) /\ 1 \in 1..Len(down[p]) /\ m = down[p][1]
        /\ m.type \in {"ack", "joined", "ice", "left", "sdp"}
    BY <1>3, <1>4, ListensHears DEF Dooms
  <1>6. ~(m.type = "left" /\ m.who = q)
    BY <1>1, <1>2, <1>3, <1>5 DEF OnceInv, SettledSee, Sees, Parts
  <1>7. CASE m \notin About(q) /\ ~(m.type \in {"joined", "ice"} /\ m.who = q)
    <2>1. Calm(p, q) /\ Passes(p, q)
      BY <1>4, <1>6, <1>7, HeardCalm, HeardPasses
    <2> QED
      BY <1>3, <2>1, KeptBy, KeptAdvances DEF Calm
  <1>8. CASE m.type \in {"joined", "ice"} /\ m.who = q
    <2>1. m \notin About(q)
      BY <1>8 DEF About
    <2>2. Passes(p, q)
      BY <1>4, <2>1, HeardPasses
    <2>3. ~Entered(p, q)
      <3>1. SUFFICES ASSUME Entered(p, q) PROVE FALSE
        OBVIOUS
      <3>2. Only(down[p], About(q), Acks(q)) /\ Acks(q) # {}
        BY <3>1, SomeAck DEF Entered, Side
      <3>3. PICK i \in 1..Len(down[p]) : down[p][i] \in Acks(q)
        BY <3>2 DEF Only
      <3>4. i = 1
        BY <1>1, <1>2, <3>3 DEF OnceInv, SettledSee, Acks
      <3> QED
        BY <1>5, <1>8, <3>3, <3>4 DEF Acks
    <2>4. Calm(p, q) \/ Opens(p, q)
      BY <1>4, <1>8, ListensHears, NewsOf
    <2>5. Kept(p, q)
      BY <1>3, <2>2, <2>3, <2>4, KeptBy, OpensKept DEF Calm
    <2> QED
      BY <2>5, KeptAdvances
  <1>9. CASE m \in About(q)
    <2>1. \A D, U, T : Side(p, q, D, U, T) =>
              /\ m \in D
              /\ \A V : TasksFor(p, q)' = V => Side(p, q, {}, U, V)'
      BY <1>4, <1>9, HeardAbout
    <2>2. /\ ~Unasked(p, q) /\ ~Preparing(p, q)
          /\ \A k \in Nat : ~Answering(p, q, k) /\ ~Proposed(p, q, k) /\ ~Waits(p, q, k)
          /\ \A k, n \in Nat : ~Replied(p, q, k, n) /\ ~Done(p, q, k, n)
      <3>1. \A U, T : ~Side(p, q, {}, U, T)
        BY <2>1
      <3> QED
        BY <3>1 DEF Unasked, Preparing, Answering, Proposed, Waits, Replied, Done
    <2>3. ASSUME Entered(p, q) PROVE Preparing(p, q)'
      <3>1. m \in Acks(q)
        BY <2>1, <2>3 DEF Entered
      <3>2. m.type = "ack" /\ q \in m.who /\ m.ok
        BY <1>5, <3>1 DEF Acks, About, Dooms
      <3>3. PICK k \in Nat : /\ Comes(p, q, k)' \/ Has(p, q, k, "new", 0)'
                             /\ TasksFor(p, q)' = TasksFor(p, q) \cup {P!Offer(q, k)}
        BY <1>3, <1>4, <2>3, <3>2, ListensHears, AckOf DEF Entered
      <3>4. TasksFor(p, q)' = {P!Offer(q, k)}
        BY <2>3, <3>3 DEF Entered, Side
      <3>5. Side(p, q, {}, {}, {P!Offer(q, k)})'
        BY <2>1, <2>3, <3>4 DEF Entered
      <3> QED
        BY <3>3, <3>5 DEF Preparing
    <2>4. ASSUME NEW n \in Nat, Asked(p, q, n) PROVE Answering(p, q, n)'
      <3>1. m \in SdpFrom(q, "offer", n)
        BY <2>1, <2>4 DEF Asked
      <3>2. m.type = "sdp" /\ m.who = q /\ m.op = "offer" /\ m.n = n
        BY <3>1 DEF SdpFrom, About
      <3>3. Bare(p, q) /\ TasksFor(p, q) = {}
        BY <2>4 DEF Asked, Side
      <3>4. PICK k \in Nat : /\ Comes(p, q, k)' \/ Has(p, q, k, "remote", m.n)'
                             /\ TasksFor(p, q)' = TasksFor(p, q) \cup {P!Answer(q, k, m.n)}
        BY <1>3, <1>4, <3>2, <3>3, ListensHears, SdpOf
      <3>5. /\ TasksFor(p, q)' = {P!Answer(q, k, n)}
            /\ Comes(p, q, k)' \/ Has(p, q, k, "remote", n)'
        BY <3>2, <3>3, <3>4
      <3>6. Side(p, q, {}, {}, {P!Answer(q, k, n)})'
        BY <2>1, <2>4, <3>5 DEF Asked
      <3> QED
        BY <3>5, <3>6 DEF Answering
    <2>5. ASSUME NEW k \in Nat, NEW n \in Nat, Replying(p, q, k, n) PROVE Done(p, q, k, n)'
      <3>1. m \in SdpFrom(q, "answer", n)
        BY <2>1, <2>5 DEF Replying
      <3>2. m.type = "sdp" /\ m.who = q /\ m.op = "answer" /\ m.n = n
        BY <3>1 DEF SdpFrom, About
      <3>3. Has(p, q, k, "offered", 0) /\ TasksFor(p, q) = {}
        BY <2>5 DEF Replying, Side
      <3>4. Has(p, q, k, "stable", m.n)' /\ TasksFor(p, q)' = {}
        BY <1>3, <1>4, <3>2, <3>3, ListensHears, SdpOf
      <3>5. Side(p, q, {}, {}, {})'
        BY <2>1, <2>5, <3>4 DEF Replying
      <3> QED
        BY <3>2, <3>4, <3>5 DEF Done
    <2> QED
      BY <2>2, <2>3, <2>4, <2>5 DEF Advances
  <1> QED
    BY <1>7, <1>8, <1>9
-----------------------------------------------------------------------------
\* What p describes and creates.
LEMMA DescribedOther ==
    ASSUME MeshInv, MaxJoins = 1, NEW p \in P!People, NEW t \in task[p], P!Described(p, t),
           NEW q \in P!People, t.who # q
    PROVE  /\ Passes(p, q) /\ TasksFor(p, q)' = TasksFor(p, q)
           /\ Pends(p, q)' <=> Pends(p, q)
           /\ peer'[p][q] = peer[p][q]
  <1>1. Typed
    BY DEF MeshInv, OnceInv
  <1>2. t \in P!Task /\ t.who \in P!People /\ up[p] \in Seq(ToServer)
    BY <1>1 DEF Typed, P!TypeOK, P!Task
  <1>3. /\ down' = down /\ creating' = creating /\ task'[p] = task[p] \ {t}
    BY <1>1 DEF P!Described, Typed, P!TypeOK
  <1>4. TasksFor(p, q)' = TasksFor(p, q)
    BY <1>3 DEF TasksFor
  <1>5. peer'[p][q] = peer[p][q]
    BY <1>1, <1>2 DEF P!Described, Typed, P!TypeOK
  <1>6. PICK m : m = [type |-> "sdp", to |-> t.who, op |-> t.op, n |-> t.n]
    OBVIOUS
  <1>7. m \in ToServer /\ m \notin To(q)
    BY <1>2, <1>6 DEF ToServer, To, P!Task
  <1>8. up'[p] = up[p] \/ up'[p] = Append(up[p], m)
    <2>1. up' = up \/ up' = [up EXCEPT ![p] = @ \o <<m>>]
      BY <1>6 DEF P!Described, P!Send
    <2>2. up[p] \o <<m>> = Append(up[p], m)
      BY <1>2, <1>7
    <2> QED
      BY <1>1, <2>1, <2>2 DEF Typed
  <1>9. Passes(p, q)
    <2>1. \A U : Only(up[p], To(q), U) => Only(Append(up[p], m), To(q), U)
      BY <1>2, <1>7, Added
    <2> QED
      BY <1>3, <1>8, <2>1 DEF Passes
  <1> QED
    BY <1>3, <1>4, <1>5, <1>9, SamePends

LEMMA DescribedThis ==
    ASSUME MeshInv, MaxJoins = 1, NEW p \in P!People, NEW t \in task[p], P!Described(p, t),
           phase[p] # "out", NEW k \in Nat, NEW n \in Nat, NEW q \in P!People, t.who = q, t.n = k,
           \/ t.op = "offer" /\ Has(p, q, k, "new", n)
           \/ t.op = "answer" /\ Has(p, q, k, "remote", n)
    PROVE  /\ \A D, T : Side(p, q, D, {}, {t}) => Side(p, q, D, SdpTo(q, t.op, k), {})'
           /\ Has(p, q, k, IF t.op = "offer" THEN "offered" ELSE "stable", n)'
  <1>1. Typed
    BY DEF MeshInv, OnceInv
  <1>2. t \in P!Task /\ t.op \in {"offer", "answer"} /\ up[p] \in Seq(ToServer)
    BY <1>1 DEF Typed, P!TypeOK, P!Task
  <1>3. down' = down /\ task'[p] = task[p] \ {t}
    BY <1>1 DEF P!Described, Typed, P!TypeOK
  <1>4. PICK m : m = [type |-> "sdp", to |-> q, op |-> t.op, n |-> k]
    OBVIOUS
  <1>5. m \in ToServer /\ m \in SdpTo(q, t.op, k) /\ m \in To(q)
    BY <1>2, <1>4 DEF ToServer, To, SdpTo
  <1>6. PICK st : st = IF t.op = "offer" THEN "offered" ELSE "stable"
    OBVIOUS
  <1>7. peer[p][q].n = t.n /\ peer[p][q].st = (IF t.op = "offer" THEN "new" ELSE "remote")
        /\ peer[p][q].with = n /\ k # 0
    BY <1>2 DEF Has
  <1>8. /\ peer' = [peer EXCEPT ![p][q].st = st]
        /\ up' = [up EXCEPT ![p] = @ \o <<m>>]
    BY <1>2, <1>4, <1>6, <1>7 DEF P!Described, P!Send
  <1>9. up'[p] = Append(up[p], m)
    <2>1. up[p] \o <<m>> = Append(up[p], m)
      BY <1>2, <1>5
    <2> QED
      BY <1>1, <1>8, <2>1 DEF Typed
  <1>10. peer'[p][q].n = k /\ peer'[p][q].st = st /\ peer'[p][q].with = n
    <2>1. peer[p][q] \in P!Peer
      BY <1>1, PeerFacts
    <2>2. peer'[p][q] = [peer[p][q] EXCEPT !.st = st]
      BY <1>1, <1>8 DEF Typed, P!TypeOK
    <2> QED
      BY <1>7, <2>1, <2>2 DEF P!Peer
  <1>11. ASSUME NEW D, Side(p, q, D, {}, {t}) PROVE Side(p, q, D, SdpTo(q, t.op, k), {})'
    <2>1. TasksFor(p, q)' = {}
      BY <1>3, <1>11 DEF Side, TasksFor
    <2>2. Only(up'[p], To(q), SdpTo(q, t.op, k))
      BY <1>2, <1>5, <1>9, <1>11, Added DEF Side
    <2> QED
      BY <1>3, <1>11, <2>1, <2>2 DEF Side
  <1> QED
    BY <1>6, <1>7, <1>10, <1>11 DEF Has

LEMMA CreatedOf ==
    ASSUME MeshInv, MaxJoins = 1, NEW p \in P!People, NEW x \in P!People, NEW a \in P!Attempts,
           P!PhoneCreated(p, x, a), NEW q \in P!People
    PROVE  /\ q # x => /\ TasksFor(p, q)' = TasksFor(p, q)
                       /\ Pends(p, q)' <=> Pends(p, q)
                       /\ peer'[p][q] = peer[p][q]
           /\ q = x => /\ Pends(p, q) /\ ~Pends(p, q)' /\ peer'[p][q].src = 1
                       /\ \E k \in Nat :
                             /\ TasksFor(p, q) = {} => TasksFor(p, q)' = {} /\ Has(p, q, k, "new", 0)'
                             /\ TasksFor(p, q) = {P!Offer(q, 0)} =>
                                   TasksFor(p, q)' = {P!Offer(q, k)} /\ Has(p, q, k, "new", 0)'
                             /\ \A n \in Nat : TasksFor(p, q) = {P!Answer(q, 0, n)} =>
                                   /\ TasksFor(p, q)' = {P!Answer(q, k, n)}
                                   /\ Has(p, q, k, "remote", n)'
  <1>1. Typed /\ a = 1
    BY DEF MeshInv, OnceInv, P!Attempts
  <1> DEFINE waiting == {t \in task[p] : t.who = x /\ t.n = 0}
             asked == {t.of : t \in {w \in waiting : w.op = "answer"}}
  <1>2. PICK pc : pc = [P!Fresh(p, x) EXCEPT !.src = a]
    OBVIOUS
  <1>3. /\ pc.n \in Nat /\ pc.n # 0 /\ pc.st = "new" /\ pc.with = 0 /\ pc.src = 1
        /\ pc \in P!Peer
    <2>1. /\ pc.n = P!Fresh(p, x).n /\ pc.st = "new" /\ pc.with = 0 /\ pc.src = 1
      BY <1>1, <1>2 DEF P!Fresh
    <2>2. pc \in P!Peer
      <3>1. a \in 0..MaxJoins
        BY <1>1
      <3> QED
        BY <1>1, <1>2, <3>1, FreshTyped
    <2> QED
      BY <1>1, <2>1, <2>2, FreshHas
  <1>4. /\ <<x, a>> \in creating[p]
        /\ creating' = [creating EXCEPT ![p] = @ \ {<<x, a>>}]
        /\ task' = [task EXCEPT ![p] = (@ \ waiting) \cup {[t EXCEPT !.n = pc.n] : t \in waiting}]
        /\ peer' = [peer EXCEPT ![p][x] =
                       IF asked = {} THEN pc
                       ELSE P!Applied(pc, CHOOSE n \in asked : \A k \in asked : k <= n)]
    BY <1>2 DEF P!PhoneCreated
  <1>5. task[p] \subseteq P!Task /\ creating[p] \subseteq P!People \X {1}
    BY <1>1 DEF Typed, P!TypeOK, P!Attempts
  <1>6. creating'[p] = creating[p] \ {<<x, 1>>}
    BY <1>1, <1>4 DEF Typed, P!TypeOK
  <1>7. \A y : Pends(p, y)' <=> Pends(p, y) /\ y # x
    <2>1. \A y : Pends(p, y) <=> \E c \in creating[p] : c[1] = y
      BY DEF Pends, P!Pending
    <2>2. \A y : Pends(p, y)' <=> \E c \in creating'[p] : c[1] = y
      BY DEF Pends, P!Pending
    <2>3. \A c \in creating[p] : c[1] = x <=> c = <<x, 1>>
      BY <1>5
    <2> QED
      BY <1>6, <2>1, <2>2, <2>3
  <1>8. Pends(p, x)
    BY <1>4 DEF Pends, P!Pending
  <1>9. task'[p] = (task[p] \ waiting) \cup {[t EXCEPT !.n = pc.n] : t \in waiting}
    BY <1>1, <1>4 DEF Typed, P!TypeOK
  <1>10. \A t \in P!Task : [t EXCEPT !.n = pc.n].who = t.who
    BY DEF P!Task
  <1>11. ASSUME q # x
         PROVE  TasksFor(p, q)' = TasksFor(p, q) /\ peer'[p][q] = peer[p][q]
    <2>1. TasksFor(p, q)' = TasksFor(p, q)
      BY <1>5, <1>9, <1>10, <1>11 DEF TasksFor
    <2> QED
      BY <1>1, <1>4, <1>11, <2>1 DEF Typed, P!TypeOK
  <1>12. ASSUME q = x
         PROVE  /\ waiting = {t \in TasksFor(p, q) : t.n = 0}
                /\ peer'[p][q] = IF asked = {} THEN pc
                                 ELSE P!Applied(pc, CHOOSE n \in asked : \A k \in asked : k <= n)
                /\ TasksFor(p, q)' =
                      (TasksFor(p, q) \ waiting) \cup {[t EXCEPT !.n = pc.n] : t \in waiting}
    <2>1. waiting = {t \in TasksFor(p, q) : t.n = 0}
      BY <1>12 DEF TasksFor
    <2>2. peer'[p][q] = IF asked = {} THEN pc
                        ELSE P!Applied(pc, CHOOSE n \in asked : \A k \in asked : k <= n)
      BY <1>1, <1>4, <1>12 DEF Typed, P!TypeOK
    <2>3. TasksFor(p, q)' =
              (TasksFor(p, q) \ waiting) \cup {[t EXCEPT !.n = pc.n] : t \in waiting}
      BY <1>5, <1>9, <1>10, <1>12 DEF TasksFor
    <2> QED
      BY <2>1, <2>2, <2>3
  <1>13. ASSUME q = x, TasksFor(p, q) = {}
         PROVE  TasksFor(p, q)' = {} /\ Has(p, q, pc.n, "new", 0)'
    <2>1. waiting = {} /\ asked = {}
      BY <1>12, <1>13
    <2> HIDE DEF waiting, asked
    <2> QED
      BY <1>3, <1>12, <1>13, <2>1 DEF Has
  <1>14. ASSUME q = x, TasksFor(p, q) = {P!Offer(q, 0)}
         PROVE  TasksFor(p, q)' = {P!Offer(q, pc.n)} /\ Has(p, q, pc.n, "new", 0)'
    <2>1. waiting = {P!Offer(q, 0)}
      BY <1>12, <1>14 DEF P!Offer
    <2>2. asked = {}
      BY <2>1 DEF P!Offer
    <2>3. [P!Offer(q, 0) EXCEPT !.n = pc.n] = P!Offer(q, pc.n)
      BY DEF P!Offer
    <2> HIDE DEF waiting, asked
    <2> QED
      BY <1>3, <1>12, <1>14, <2>1, <2>2, <2>3 DEF Has
  <1>15. ASSUME q = x, NEW n \in Nat, TasksFor(p, q) = {P!Answer(q, 0, n)}
         PROVE  TasksFor(p, q)' = {P!Answer(q, pc.n, n)} /\ Has(p, q, pc.n, "remote", n)'
    <2>1. waiting = {P!Answer(q, 0, n)}
      BY <1>12, <1>15 DEF P!Answer
    <2>2. asked = {n}
      <3>1. P!Answer(q, 0, n).op = "answer" /\ P!Answer(q, 0, n).of = n
        BY DEF P!Answer
      <3> HIDE DEF waiting
      <3>2. \A h : h \in asked <=> \E t \in waiting : t.op = "answer" /\ h = t.of
        OBVIOUS
      <3> HIDE DEF asked
      <3>3. \A h : h \in asked <=> h = n
        BY <2>1, <3>1, <3>2
      <3> QED
        BY <3>3
    <2>3. [P!Answer(q, 0, n) EXCEPT !.n = pc.n] = P!Answer(q, pc.n, n)
      BY DEF P!Answer
    <2> HIDE DEF waiting, asked
    <2>4. (CHOOSE h \in asked : \A k \in asked : k <= h) = n
      BY <2>2
    <2>5. peer'[p][q] = P!Applied(pc, n)
      BY <1>12, <1>15, <2>2, <2>4
    <2>6. TasksFor(p, q)' = {P!Answer(q, pc.n, n)}
      BY <1>12, <1>15, <2>1, <2>3
    <2> QED
      BY <1>3, <2>5, <2>6, AppliedHas DEF Has
  <1>16. q = x => peer'[p][q].src = 1
    <2>1. \A n : P!Applied(pc, n).src = 1
      BY <1>3 DEF P!Applied, P!Peer
    <2> HIDE DEF asked
    <2> QED
      BY <1>3, <1>12, <2>1
  <1> HIDE DEF waiting, asked
  <1> QED
    BY <1>3, <1>7, <1>8, <1>11, <1>13, <1>14, <1>15, <1>16

LEMMA ConnectsAdvances ==
    ASSUME MeshInv, Typed', MaxJoins = 1, NEW p \in P!People, Connects(p),
           NEW q \in P!People, q # p, Settled(p)'
    PROVE  Advances(p, q)
  <1>1. OnceInv /\ Typed /\ Step(p)
    BY OnceSteps DEF MeshInv, OnceInv
  <1>2. Settled(p)
    BY <1>1, SettledBefore
  <1>3. phase[p] # "out"
    BY <1>2 DEF Settled
  <1>4. ASSUME NEW t \in task[p], P!Described(p, t) PROVE Advances(p, q)
    <2>1. t \in P!Task /\ t.n \in Nat /\ t.n # 0
      BY <1>1, <1>4 DEF Typed, P!TypeOK, P!Task, P!Described
    <2>2. CASE t.who # q
      BY <1>4, <2>2, DescribedOther, KeptBy, KeptAdvances
    <2>3. CASE t.who = q
      <3>1. t \in TasksFor(p, q)
        BY <2>3 DEF TasksFor
      <3>2. \A D, U : ~Side(p, q, D, U, {})
        BY <3>1 DEF Side
      <3>3. /\ ~Unasked(p, q) /\ ~Entered(p, q)
            /\ \A k \in Nat : ~Asked(p, q, k) /\ ~Proposed(p, q, k) /\ ~Waits(p, q, k)
            /\ \A k, n \in Nat : ~Replied(p, q, k, n) /\ ~Done(p, q, k, n) /\ ~Replying(p, q, k, n)
        BY <3>2 DEF Unasked, Entered, Asked, Proposed, Waits, Replied, Done, Replying
      <3>4. ASSUME Preparing(p, q) PROVE \E k \in Nat : Proposed(p, q, k)'
        <4>1. PICK k \in Nat : /\ Side(p, q, {}, {}, {P!Offer(q, k)})
                               /\ Comes(p, q, k) \/ Has(p, q, k, "new", 0)
          BY <3>4 DEF Preparing
        <4>2. t = P!Offer(q, k)
          BY <3>1, <4>1 DEF Side
        <4>3. t.op = "offer" /\ t.n = k
          BY <4>2 DEF P!Offer
        <4>4. Has(p, q, k, "new", 0)
          BY <2>1, <4>1, <4>3 DEF Comes
        <4>5. /\ Side(p, q, {}, {}, {t}) => Side(p, q, {}, SdpTo(q, "offer", k), {})'
              /\ Has(p, q, k, "offered", 0)'
          BY <1>3, <1>4, <2>3, <4>3, <4>4, DescribedThis
        <4> QED
          BY <4>1, <4>2, <4>5 DEF Proposed
      <3>5. ASSUME NEW n \in Nat, Answering(p, q, n) PROVE \E k \in Nat : Replied(p, q, k, n)'
        <4>1. PICK k \in Nat : /\ Side(p, q, {}, {}, {P!Answer(q, k, n)})
                               /\ Comes(p, q, k) \/ Has(p, q, k, "remote", n)
          BY <3>5 DEF Answering
        <4>2. t = P!Answer(q, k, n)
          BY <3>1, <4>1 DEF Side
        <4>3. t.op = "answer" /\ t.n = k
          BY <4>2 DEF P!Answer
        <4>4. Has(p, q, k, "remote", n)
          BY <2>1, <4>1, <4>3 DEF Comes
        <4>5. /\ Side(p, q, {}, {}, {t}) => Side(p, q, {}, SdpTo(q, "answer", k), {})'
              /\ Has(p, q, k, "stable", n)'
          BY <1>3, <1>4, <2>3, <4>3, <4>4, DescribedThis
        <4> QED
          BY <4>1, <4>2, <4>5 DEF Replied
      <3> QED
        BY <3>3, <3>4, <3>5 DEF Advances
    <2> QED
      BY <2>2, <2>3
  <1>5. ASSUME NEW x \in P!People, NEW a \in P!Attempts, P!PhoneCreated(p, x, a)
        PROVE  Advances(p, q)
    <2>1. down'[p] = down[p] /\ up'[p] = up[p]
      BY <1>5 DEF P!PhoneCreated, P!PhoneStays
    <2>2. Passes(p, q)
      BY <2>1 DEF Passes
    <2>3. CASE x # q
      BY <1>5, <2>2, <2>3, CreatedOf, KeptBy, KeptAdvances
    <2>4. CASE x = q
      <3>1. PICK k \in Nat :
                /\ TasksFor(p, q) = {} => TasksFor(p, q)' = {} /\ Has(p, q, k, "new", 0)'
                /\ TasksFor(p, q) = {P!Offer(q, 0)} =>
                      TasksFor(p, q)' = {P!Offer(q, k)} /\ Has(p, q, k, "new", 0)'
                /\ \A n \in Nat : TasksFor(p, q) = {P!Answer(q, 0, n)} =>
                      TasksFor(p, q)' = {P!Answer(q, k, n)} /\ Has(p, q, k, "remote", n)'
        BY <1>5, <2>4, CreatedOf
      <3>2. Pends(p, q) /\ peer[p][q] = P!NoPeer
        BY <1>5, <2>4, CreatedOf DEF MeshInv, OnePeer
      <3>3. \A j, st, n : ~Has(p, q, j, st, n)
        BY <3>2 DEF Has, P!NoPeer
      <3>4. /\ ~Entered(p, q)
            /\ \A j \in Nat : ~Proposed(p, q, j) /\ ~Waits(p, q, j)
            /\ \A j, n \in Nat : ~Replied(p, q, j, n) /\ ~Done(p, q, j, n) /\ ~Replying(p, q, j, n)
        BY <3>2, <3>3 DEF Entered, Proposed, Waits, Replied, Done, Replying
      <3>5. \A D, U, T, V : Side(p, q, D, U, T) /\ TasksFor(p, q)' = V => Side(p, q, D, U, V)'
        BY <2>1 DEF Side
      <3>6. Has(p, q, k, "new", 0)' => Bare(p, q)'
        BY DEF Has, Bare
      <3>7. ASSUME Unasked(p, q) PROVE Unasked(p, q)'
        BY <3>1, <3>5, <3>6, <3>7 DEF Unasked, Side
      <3>8. ASSUME NEW n \in Nat, Asked(p, q, n) PROVE Asked(p, q, n)'
        BY <3>1, <3>5, <3>6, <3>8 DEF Asked, Side
      <3>9. ASSUME Preparing(p, q) PROVE Preparing(p, q)'
        <4>1. Side(p, q, {}, {}, {P!Offer(q, 0)})
          BY <3>3, <3>9 DEF Preparing, Comes
        <4>2. TasksFor(p, q)' = {P!Offer(q, k)} /\ Has(p, q, k, "new", 0)'
          BY <3>1, <4>1 DEF Side
        <4> QED
          BY <3>5, <4>1, <4>2 DEF Preparing
      <3>10. ASSUME NEW n \in Nat, Answering(p, q, n) PROVE Answering(p, q, n)'
        <4>1. Side(p, q, {}, {}, {P!Answer(q, 0, n)})
          BY <3>3, <3>10 DEF Answering, Comes
        <4>2. TasksFor(p, q)' = {P!Answer(q, k, n)} /\ Has(p, q, k, "remote", n)'
          BY <3>1, <4>1 DEF Side
        <4> QED
          BY <3>5, <4>1, <4>2 DEF Answering
      <3> QED
        BY <3>4, <3>7, <3>8, <3>9, <3>10 DEF Advances
    <2> QED
      BY <2>3, <2>4
  <1> QED
    BY <1>4, <1>5 DEF Connects
-----------------------------------------------------------------------------
\* A candidate that p sends changes nothing but what p has said.
LEMMA TricklesKept ==
    ASSUME Typed, NEW p \in P!People, NEW x \in P!People, P!Trickles(p, x), NEW q \in P!People
    PROVE  Kept(p, q)
  <1>1. UNCHANGED <<down, peer, creating, task>>
    BY DEF P!Trickles
  <1>2. PICK m \in ToServer : m.type = "ice" /\ up'[p] = Append(up[p], m)
    <2> DEFINE m == [type |-> "ice", to |-> x]
    <2>1. m \in ToServer /\ m.type = "ice"
      BY DEF ToServer
    <2>2. up \in [P!People -> Seq(ToServer)]
      BY DEF Typed
    <2>3. up'[p] = up[p] \o <<m>>
      BY <2>2 DEF P!Trickles, P!Send
    <2>4. up'[p] = Append(up[p], m)
      BY <2>1, <2>2, <2>3
    <2> QED
      BY <2>1, <2>4
  <1>3. up[p] \in Seq(ToServer) /\ m \notin To(q)
    BY <1>2 DEF Typed, To
  <1>4. Passes(p, q)
    BY <1>1, <1>2, <1>3, Added DEF Passes
  <1> QED
    BY <1>1, <1>4, KeptBy, SamePends, SameTasks

\* Who moves is yet to enter or leaves, or sends a candidate, and has the connections it had or
\* none.
LEMMA MovesCalm ==
    ASSUME MeshInv, MaxJoins = 1, NEW p \in P!People, Moves(p), NEW q \in P!People
    PROVE  /\ Calm(p, q) /\ down'[p] = down[p]
           /\ ToEnter(p) \/ phase'[p] = "out" \/ \E x \in P!People : P!Trickles(p, x)
  <1>1. /\ Typed /\ PhaseOf(p) /\ P!Attempts = {1} /\ tried[p] \in {0, 1}
        /\ phase[p] \in {"out", "opening", "in"} /\ OnceInv
        /\ tried[p] = 0 => ToEnter(p)
        /\ flow[p][1] \in {"media", "ice"} => ToEnter(p)
    BY OnceFacts DEF MeshInv
  <1>2. creating' = creating /\ task' = task /\ down' = down
    BY DEF Moves, P!Start, P!PageEnters, P!PageRefused, P!PageLeaves, P!PhoneMedia,
       P!PhoneRefused, P!PhoneAsks, P!PhoneTimesOut, P!PhoneLeaves, P!Trickles, P!Still
  <1>3. P!Gone(p) => phase'[p] = "out"
    BY <1>1 DEF P!Gone, Typed, P!TypeOK
  <1>4. P!Teardown(p) => peer'[p][q] = P!NoPeer
    BY <1>1, TearsFacts
  <1>5. CASE P!Start(p) \/ P!PageEnters(p) \/ P!PageRefused(p)
    <2>1. peer' = peer
      BY <1>5 DEF P!Start, P!PageEnters, P!PageRefused
    <2>2. ToEnter(p)
      <3>1. P!Start(p) => tried[p] = 0
        BY <1>1 DEF P!Start
      <3>2. P!PageEnters(p) \/ P!PageRefused(p) => p \in Pages /\ phase[p] = "opening"
        BY DEF P!PageEnters, P!PageRefused
      <3> QED
        BY <1>1, <1>5, <3>1, <3>2 DEF PhaseOf
    <2> QED
      BY <1>2, <2>1, <2>2, Nothing
  <1>6. CASE (\E forAll \in BOOLEAN : P!PageLeaves(p, forAll)) \/ P!PhoneLeaves(p)
    <2>1. P!Teardown(p) /\ phase'[p] = "out"
      BY <1>3, <1>6 DEF P!PageLeaves, P!PhoneLeaves
    <2> QED
      BY <1>1, <1>2, <2>1, Torn
  <1>7. CASE P!PhoneMedia(p, 1) \/ P!PhoneAsks(p, 1)
    <2>1. peer' = peer /\ flow[p][1] \in {"media", "ice"}
      BY <1>7 DEF P!PhoneMedia, P!PhoneAsks
    <2> QED
      BY <1>1, <1>2, <2>1, Nothing
  <1>8. CASE P!PhoneRefused(p, 1)
    <2>1. P!Teardown(p) /\ phase'[p] = "out"
      BY <1>3, <1>8 DEF P!PhoneRefused, P!Fail
    <2> QED
      BY <1>1, <1>2, <2>1, Torn
  <1>9. CASE P!PhoneTimesOut(p, 1)
    <2>1. CASE phase[p] = "opening"
      <3>1. P!Teardown(p) /\ phase'[p] = "out"
        BY <1>3, <1>9, <2>1 DEF P!PhoneTimesOut, P!Fail
      <3> QED
        BY <1>1, <1>2, <3>1, Torn
    <2>2. CASE phase[p] # "opening"
      <3>1. p \in Phones /\ flow[p][1] = "ack" /\ phase' = phase /\ peer' = peer
        BY <1>9, <2>2 DEF P!PhoneTimesOut
      <3>2. phase'[p] = "out"
        BY <1>1, <2>2, <3>1 DEF PhaseOf
      <3> QED
        BY <1>2, <3>1, <3>2, Nothing
    <2> QED
      BY <2>1, <2>2
  <1>10. ASSUME NEW x \in P!People, P!Trickles(p, x) PROVE Calm(p, q)
    BY <1>2, <1>10, Nothing DEF P!Trickles
  <1> QED
    BY <1>1, <1>2, <1>5, <1>6, <1>7, <1>8, <1>9, <1>10 DEF Moves

\* Nothing is said to whom nothing is to be said.
LEMMA SaysApart ==
    ASSUME Typed, Typed', NEW p \in P!People, Says(p), NEW q \in P!People,
           TasksFor(p, q) = {}, Only(up[p], To(q), {})
    PROVE  Only(up'[p], To(q), {})
  <1>1. /\ Len(up[p]) \in Nat /\ Len(up'[p]) \in Nat
        /\ \A i \in 1..Len(up[p]) : i \in 1..Len(up'[p])
    BY SaidFacts
  <1>2. ASSUME NEW i \in 1..Len(up'[p]) PROVE up'[p][i] \notin To(q)
    <2>1. CASE i \in 1..Len(up[p])
      BY <2>1 DEF Says, Only
    <2>2. CASE i > Len(up[p])
      <3>1. up'[p][i].type = "sdp" => \E t \in task[p] : t.who = up'[p][i].to
        BY <2>2 DEF Says
      <3> QED
        BY <3>1 DEF TasksFor, To
    <2> QED
      BY <1>1, <2>1, <2>2
  <1> QED
    BY <1>2 DEF Only

LEMMA ApartKept ==
    ASSUME MeshInv, Typed', MaxJoins = 1, NEW p \in P!People,
           Moves(p) \/ Listens(p) \/ Connects(p),
           NEW q \in P!People, ToEnter(p) \/ ToEnter(q), Apart(p, q)
    PROVE  Apart(p, q)'
  <1>1. OnceInv /\ Typed /\ Step(p)
    BY OnceSteps DEF MeshInv, OnceInv
  <1>2. /\ Only(down[p], About(q), {}) /\ Only(up[p], To(q), {}) /\ TasksFor(p, q) = {}
        /\ peer[p][q] = P!NoPeer /\ ~Pends(p, q)
    BY DEF Apart, Side
  <1>3. Only(up'[p], To(q), {})
    BY <1>1, <1>2, SaysApart DEF Step
  <1>4. Calm(p, q) /\ Only(down'[p], About(q), {})
    <2>1. CASE Moves(p)
      BY <1>2, <2>1, MovesCalm
    <2>2. CASE Listens(p)
      <3>1. PICK m \in FromServer : m = Head(down[p])
        BY <2>2, ListensHears
      <3>2. 1 \in 1..Len(down[p]) /\ m = down[p][1]
        BY <2>2, <3>1, ListensHears
      <3>3. m \notin About(q)
        BY <1>2, <3>2 DEF Only
      <3>4. m.type \in {"joined", "left", "ice"} => m.who # q
        <4>1. CASE ToEnter(p)
          BY <1>1, <3>2, <4>1 DEF OnceInv, Unheard
        <4>2. CASE ToEnter(q)
          <5>1. ~Names(m, q) /\ ~Parts(m, q)
            BY <1>1, <3>2, <4>2 DEF OnceInv, Unheard
          <5> QED
            BY <5>1 DEF Names, Shows, Parts
        <4> QED
          BY <4>1, <4>2
      <3>5. Calm(p, q) /\ Passes(p, q)
        BY <2>2, <3>1, <3>3, <3>4, HeardCalm, HeardPasses
      <3> QED
        BY <1>2, <3>5 DEF Passes
    <2>3. ASSUME NEW t \in task[p], P!Described(p, t) PROVE Calm(p, q) /\ down' = down
      <3>1. t.who # q
        BY <1>2 DEF TasksFor
      <3> QED
        BY <2>3, <3>1, DescribedOther DEF Calm, P!Described
    <2>4. ASSUME NEW x \in P!People, NEW a \in P!Attempts, P!PhoneCreated(p, x, a)
          PROVE  Calm(p, q) /\ down' = down
      <3>1. x # q
        BY <1>2, <2>4, CreatedOf
      <3> QED
        BY <2>4, <3>1, CreatedOf DEF Calm, P!PhoneCreated
    <2> QED
      BY <1>2, <2>1, <2>2, <2>3, <2>4 DEF Connects
  <1> QED
    BY <1>2, <1>3, <1>4 DEF Apart, Side, Calm

LEMMA StrangersKept ==
    ASSUME MeshInv, Typed', MaxJoins = 1, NEW p \in P!People,
           Moves(p) \/ Listens(p) \/ Connects(p)
    PROVE  Strangers'
  <1>1. OnceInv /\ Step(p) /\ Strangers
    BY OnceSteps DEF MeshInv
  <1>2. \A x, y \in P!People : (ToEnter(x) \/ ToEnter(y)) /\ Apart(x, y) => Apart(x, y)'
    <2> SUFFICES ASSUME NEW x \in P!People, NEW y \in P!People, ToEnter(x) \/ ToEnter(y),
                        Apart(x, y)
                 PROVE  Apart(x, y)'
      OBVIOUS
    <2>1. CASE x = p
      BY <2>1, ApartKept
    <2>2. CASE x # p
      BY <1>1, <2>2, SameKept DEF Step, Alone
    <2> QED
      BY <2>1, <2>2
  <1> QED
    BY <1>1, <1>2, ToEnterKept DEF Strangers

LEMMA NegotiatesKept ==
    ASSUME MeshInv, Typed', MaxJoins = 1, NEW p \in P!People,
           Moves(p) \/ Listens(p) \/ Connects(p)
    PROVE  Negotiates'
  <1>1. OnceInv /\ Step(p) /\ Negotiates
    BY OnceSteps DEF MeshInv
  <1> SUFFICES ASSUME NEW x \in P!People, NEW y \in P!People, x # y, Settled(x)', Settled(y)'
               PROVE  Negotiate(x, y)' \/ Negotiate(y, x)'
    BY DEF Negotiates
  <1>2. Settled(x) /\ Settled(y)
    BY <1>1, SettledBefore
  <1>3. Negotiate(x, y) \/ Negotiate(y, x)
    BY <1>1, <1>2 DEF Negotiates
  <1>4. \A z \in P!People \ {p} : \A w : Kept(z, w)
    BY <1>1, SameKept DEF Step, Alone
  <1>5. \A z \in P!People : z # p /\ Settled(z)' /\ Settled(p)' => Advances(p, z)
    <2> SUFFICES ASSUME NEW z \in P!People, z # p, Settled(z)', Settled(p)' PROVE Advances(p, z)
      OBVIOUS
    <2>1. CASE Moves(p)
      <3>1. Settled(p)
        BY <1>1, SettledBefore
      <3>2. PICK w \in P!People : P!Trickles(p, w)
        BY <2>1, <3>1, MovesCalm DEF Settled
      <3> QED
        BY <1>1, <3>2, TricklesKept, KeptAdvances DEF OnceInv
    <2> QED
      BY <2>1, ListensAdvances, ConnectsAdvances
  <1>6. CASE x = p
    BY <1>3, <1>4, <1>5, <1>6, PairAdvances
  <1>7. CASE y = p
    BY <1>3, <1>4, <1>5, <1>7, PairAdvances
  <1>8. CASE x # p /\ y # p
    BY <1>3, <1>4, <1>8, KeptAdvances, PairAdvances
  <1> QED
    BY <1>6, <1>7, <1>8
-----------------------------------------------------------------------------
\* The streams: of p only, and p has one when it has its microphone.
LEMMA StreamsAlone ==
    ASSUME Typed, NEW p \in P!People, Moves(p) \/ Listens(p) \/ Connects(p)
    PROVE  /\ \A q \in P!People \ {p} : local'[q] = local[q] /\ running'[q] = running[q]
           /\ (Listens(p) /\ phase'[p] # "out") \/ Connects(p) => UNCHANGED <<local, running>>
  <1> DEFINE same == \A q \in P!People \ {p} : local'[q] = local[q] /\ running'[q] = running[q]
  <1>1. P!Teardown(p) => same
    BY DEF P!Teardown, Typed, P!TypeOK
  <1>2. UNCHANGED <<local, running>> => same
    OBVIOUS
  <1>3. P!Gone(p) => phase'[p] = "out"
    BY DEF P!Gone, Typed, P!TypeOK
  <1>4. Listens(p) => UNCHANGED <<local, running>> \/ (P!Teardown(p) /\ P!Gone(p))
    BY DEF Listens, P!PageTakesAck, P!PageTakesJoined, P!PageTakesLeft, P!PageTakesEnded,
       P!PageTakesSdp, P!PageTakesIce, P!PhoneTakesAck, P!PhoneTakesJoined, P!PhoneTakesLeft,
       P!PhoneTakesEnded, P!PhoneTakesSdp, P!PhoneTakesIce, P!Unmoved, P!PhoneStays, P!Fail
  <1>5. Connects(p) => UNCHANGED <<local, running>>
    BY DEF Connects, P!Described, P!PhoneCreated, P!PhoneStays
  <1>6. Moves(p) => same
    <2>1. P!PageEnters(p) => same
      BY DEF P!PageEnters, Typed, P!TypeOK
    <2>2. ASSUME NEW a \in P!Attempts, P!PhoneMedia(p, a) PROVE same
      BY <2>2 DEF P!PhoneMedia, Typed, P!TypeOK
    <2>3. \/ P!Start(p) \/ P!PageRefused(p) \/ (\E forAll \in BOOLEAN : P!PageLeaves(p, forAll))
          \/ (\E a \in P!Attempts : P!PhoneRefused(p, a) \/ P!PhoneAsks(p, a)
                                    \/ P!PhoneTimesOut(p, a))
          \/ P!PhoneLeaves(p) \/ (\E x \in P!People : P!Trickles(p, x))
          => UNCHANGED <<local, running>> \/ P!Teardown(p)
      BY DEF P!Start, P!PageRefused, P!PageLeaves, P!PhoneRefused, P!PhoneAsks,
         P!PhoneTimesOut, P!PhoneLeaves, P!Trickles, P!Fail
    <2> HIDE DEF same
    <2> QED
      BY <1>1, <1>2, <2>1, <2>2, <2>3 DEF Moves
  <1> HIDE DEF same
  <1> QED
    BY <1>1, <1>2, <1>3, <1>4, <1>5, <1>6 DEF same

LEMMA StreamsKept ==
    ASSUME MeshInv, MaxJoins = 1, NEW p \in P!People, Moves(p) \/ Listens(p) \/ Connects(p)
    PROVE  Streams'
  <1>1. OnceInv /\ Typed /\ Step(p) /\ Streams
    BY OnceSteps DEF MeshInv, OnceInv
  <1>2. /\ PhaseOf(p) /\ P!Attempts = {1} /\ tried[p] \in {0, 1}
        /\ phase[p] \in {"out", "opening", "in"}
        /\ flow[p][1] \in {"media", "ice"} => ToEnter(p)
    BY <1>1, OnceFacts
  <1> SUFFICES ASSUME NEW q \in P!People, phase'[q] # "out", flow'[q][1] # "media"
               PROVE  local'[q] = 1 /\ 1 \in running'[q]
    BY DEF Streams
  <1>3. CASE q # p
    <2>1. phase'[q] = phase[q] /\ flow'[q] = flow[q]
      BY <1>1, <1>3 DEF Step, Alone
    <2>2. local'[q] = local[q] /\ running'[q] = running[q]
      BY <1>1, <1>3, StreamsAlone
    <2> QED
      BY <1>1, <2>1, <2>2 DEF Streams
  <1>4. CASE q = p /\ Listens(p)
    <2>1. phase[p] # "out" /\ down[p] # <<>> /\ Head(down[p]).type # "ended"
      BY <1>4, ListensHears DEF Dooms
    <2>2. flow[p][1] # "media"
      BY <2>1, Streaming DEF ToEnter
    <2>3. UNCHANGED <<local, running>>
      BY <1>1, <1>4, StreamsAlone
    <2> QED
      BY <1>1, <1>4, <2>1, <2>2, <2>3 DEF Streams
  <1>5. CASE q = p /\ Connects(p)
    <2>1. UNCHANGED <<local, running>>
      BY <1>1, <1>5, StreamsAlone
    <2>2. UNCHANGED <<phase, flow>>
      BY <1>5 DEF Connects, P!Described, P!PhoneCreated, P!PhoneStays
    <2> QED
      BY <1>1, <1>5, <2>1, <2>2 DEF Streams
  <1>6. CASE q = p /\ Moves(p)
    <2>1. P!Gone(p) => phase'[q] = "out"
      BY <1>1, <1>6 DEF P!Gone, Typed, P!TypeOK
    <2>2. P!Start(p) => flow'[p][1] = "media"
      BY <1>1, <1>2 DEF P!Start, P!Flows, Typed, P!TypeOK
    <2>3. P!PageEnters(p) => local'[p] = 1 /\ 1 \in running'[p]
      BY <1>1, <1>2 DEF P!PageEnters, PhaseOf, Typed, P!TypeOK
    <2>4. CASE P!PhoneMedia(p, 1)
      <3>1. phase[p] = "opening" => local'[p] = 1 /\ 1 \in running'[p]
        BY <1>1, <2>4 DEF P!PhoneMedia, Typed, P!TypeOK
      <3>2. phase' = phase /\ p \in Phones /\ ToEnter(p)
        BY <1>2, <2>4 DEF P!PhoneMedia
      <3>3. phase[p] # "in"
        BY <1>1, <3>2 DEF OnceInv, Unheard
      <3> QED
        BY <1>2, <1>6, <3>1, <3>2, <3>3
    <2>5. CASE P!PhoneAsks(p, 1)
      BY <1>1, <1>6, <2>5 DEF P!PhoneAsks, Streams
    <2>6. CASE P!PhoneTimesOut(p, 1)
      BY <1>1, <1>6, <2>1, <2>6 DEF P!PhoneTimesOut, P!Fail, Streams
    <2>7. \/ P!PageRefused(p) \/ (\E forAll \in BOOLEAN : P!PageLeaves(p, forAll))
          \/ P!PhoneRefused(p, 1) \/ P!PhoneLeaves(p)
          => P!Gone(p)
      BY DEF P!PageRefused, P!PageLeaves, P!PhoneRefused, P!PhoneLeaves, P!Fail
    <2>8. ASSUME NEW x \in P!People, P!Trickles(p, x) PROVE local'[q] = 1 /\ 1 \in running'[q]
      BY <1>1, <1>6, <2>8 DEF P!Trickles, Streams
    <2>9. \/ P!Start(p) \/ P!PageEnters(p) \/ P!PhoneMedia(p, 1) \/ P!PhoneAsks(p, 1)
          \/ P!PhoneTimesOut(p, 1) \/ P!Gone(p) \/ \E x \in P!People : P!Trickles(p, x)
      BY <1>2, <1>6, <2>7 DEF Moves
    <2> QED
      BY <1>6, <2>1, <2>2, <2>3, <2>4, <2>5, <2>6, <2>8, <2>9
  <1> QED
    BY <1>3, <1>4, <1>5, <1>6
-----------------------------------------------------------------------------
\* A connection that is there stays what it is, or is one of the stream that runs.
LEMMA ListensPeers ==
    ASSUME MeshInv, MaxJoins = 1, NEW p \in P!People, Listens(p), NEW q \in P!People
    PROVE  /\ \/ peer'[p][q] = P!NoPeer
              \/ phase'[p] # "out" => peer'[p][q].src = 1
              \/ peer[p][q] # P!NoPeer /\ peer'[p][q].src = peer[p][q].src
           /\ p \in Phones /\ Pends(p, q)' => peer'[p][q] = P!NoPeer
  <1>1. OnceInv /\ Typed /\ PhaseOf(p) /\ OnePeer
    BY OnceFacts DEF MeshInv
  <1>2. PICK m \in FromServer : m = Head(down[p])
    BY ListensHears
  <1>3. phase'[p] # "out" => local[p] = 1
    BY Streaming, ListensHears DEF Dooms
  <1>4. P!Fresh(p, q).src = local[p]
    BY DEF P!Fresh
  <1>5. peer[p][q] \in P!Peer
    BY <1>1 DEF Typed, P!TypeOK
  <1>6. m.type \in {"joined", "left", "sdp", "ice"} => m.who \in P!People
    BY DEF FromServer
  <1> DEFINE kept == /\ \/ peer'[p][q] = P!NoPeer
                        \/ phase'[p] # "out" => peer'[p][q].src = 1
                        \/ peer[p][q] # P!NoPeer /\ peer'[p][q].src = peer[p][q].src
                     /\ p \in Phones /\ Pends(p, q)' => peer'[p][q] = P!NoPeer
  <1>7. ASSUME peer'[p][q] \in {P!NoPeer, peer[p][q]}, creating'[p] = creating[p]
        PROVE  kept
    BY <1>1, <1>7, SamePends DEF OnePeer
  <1>8. ASSUME NEW who, P!Creates(p, who), p \notin Phones PROVE kept
    <2>1. peer'[p][q] \in {peer[p][q], P!Fresh(p, q)}
      BY <1>1, <1>8, CreatesOf
    <2> QED
      BY <1>3, <1>4, <1>8, <2>1
  <1>9. ASSUME NEW who, P!Ensures(p, who), peer' = peer PROVE kept
    BY <1>1, <1>9, EnsuresOf DEF OnePeer
  <1>10. p \in Pages => p \notin Phones
    BY <1>1, OnceFacts DEF MeshInv
  <1>11. P!Teardown(p) => peer'[p][q] = P!NoPeer
    BY <1>1, TearsFacts
  <1>12. ASSUME P!Answered(p, m) PROVE kept
    <2>1. creating' = creating
      BY <1>12 DEF P!Answered
    <2>2. \/ peer'[p][q] = peer[p][q]
          \/ /\ peer[p][q].st = "offered" /\ peer'[p][q].src = peer[p][q].src
      BY <1>1, <1>5, <1>12 DEF P!Answered, Typed, P!TypeOK, P!Peer
    <2>3. peer[p][q].st = "offered" => peer[p][q] # P!NoPeer
      BY DEF P!NoPeer
    <2> QED
      BY <1>1, <1>7, <2>1, <2>2, <2>3, SamePends DEF OnePeer
  <1>13. ASSUME NEW pc \in P!Peer, NEW n \in Nat, p \in P!People, m.who \in P!People,
                peer' = [peer EXCEPT ![p][m.who] = P!Applied(pc, n)]
         PROVE  peer'[p][q] = peer[p][q] \/ (q = m.who /\ peer'[p][q].src = pc.src)
    BY <1>1, <1>13 DEF P!Applied, Typed, P!TypeOK, P!Peer
  <1> HIDE DEF kept
  <1>14. CASE P!PageTakesAck(p)
    <2>1. p \in Pages /\ creating' = creating
          /\ (peer' = peer \/ P!Teardown(p) \/ P!Creates(p, m.who))
      BY <1>2, <1>14 DEF P!PageTakesAck
    <2> QED
      BY <1>7, <1>8, <1>10, <1>11, <2>1 DEF kept
  <1>15. CASE P!PhoneTakesAck(p)
    <2>1. (creating' = creating /\ (peer' = peer \/ P!Teardown(p)))
          \/ (peer' = peer /\ P!Ensures(p, m.who))
      BY <1>2, <1>15 DEF P!PhoneTakesAck, P!Fail
    <2> QED
      BY <1>7, <1>9, <1>11, <2>1 DEF kept
  <1>16. CASE P!PageTakesJoined(p) \/ P!PageTakesIce(p)
    BY <1>8, <1>10, <1>16 DEF kept, P!PageTakesJoined, P!PageTakesIce, P!PageHears
  <1>17. CASE P!PhoneTakesJoined(p)
    BY <1>7, <1>9, <1>17 DEF kept, P!PhoneTakesJoined
  <1>18. CASE P!PageTakesLeft(p) \/ P!PhoneTakesLeft(p)
    <2>1. creating' = creating /\ peer' = [peer EXCEPT ![p][m.who] = P!NoPeer] /\ m.type = "left"
      BY <1>1, <1>2, <1>18, HearsHead DEF P!PageTakesLeft, P!PhoneTakesLeft, P!PageHears, P!PhoneHears
    <2>2. peer'[p][q] \in {P!NoPeer, peer[p][q]}
      BY <1>1, <1>6, <2>1 DEF Typed, P!TypeOK
    <2> QED
      BY <1>7, <2>1, <2>2 DEF kept
  <1>19. CASE P!PageTakesEnded(p) \/ P!PhoneTakesEnded(p)
    <2>1. creating' = creating /\ (peer' = peer \/ P!Teardown(p))
      BY <1>19 DEF P!PageTakesEnded, P!PhoneTakesEnded, P!Still, P!Fail
    <2> QED
      BY <1>7, <1>11, <2>1 DEF kept
  <1>20. CASE P!PageTakesSdp(p)
    <2>1. p \in Pages /\ m.type = "sdp" /\ m.n \in Nat /\ m.who \in P!People
      BY <1>1, <1>2, <1>20, HearsHead DEF P!PageTakesSdp, P!PageHears, FromServer
    <2> DEFINE pc == IF peer[p][m.who] = P!NoPeer THEN P!Fresh(p, m.who) ELSE peer[p][m.who]
    <2>2. \/ peer' = peer /\ creating' = creating
          \/ P!Answered(p, m)
          \/ peer' = [peer EXCEPT ![p][m.who] = P!Applied(pc, m.n)]
      BY <1>2, <1>20 DEF P!PageTakesSdp
    <2>3. ASSUME peer' = [peer EXCEPT ![p][m.who] = P!Applied(pc, m.n)] PROVE kept
      <3>1. pc \in P!Peer
        <4>1. 1 \in 0..MaxJoins /\ peer[p][m.who] \in P!Peer
          BY <1>1, <2>1 DEF Typed, P!TypeOK
        <4> QED
          BY <1>1, <2>1, <4>1, FreshTyped
      <3>2. peer'[p][q] = peer[p][q] \/ (q = m.who /\ peer'[p][q].src = pc.src)
        BY <1>13, <2>1, <2>3, <3>1
      <3>3. q = m.who => pc.src = local[p] \/ (peer[p][q] # P!NoPeer /\ pc.src = peer[p][q].src)
        BY <1>4
      <3> HIDE DEF pc
      <3> QED
        BY <1>3, <1>10, <2>1, <3>2, <3>3 DEF kept
    <2> QED
      BY <1>7, <1>12, <2>2, <2>3 DEF kept
  <1>21. CASE P!PhoneTakesSdp(p)
    <2>1. p \in Phones /\ m.type = "sdp" /\ m.n \in Nat /\ m.who \in P!People
      BY <1>1, <1>2, <1>21, HearsHead DEF P!PhoneTakesSdp, P!PhoneHears, FromServer
    <2>2. \/ peer' = peer /\ creating' = creating
          \/ P!Answered(p, m)
          \/ /\ peer' = [peer EXCEPT ![p][m.who] = P!Applied(peer[p][m.who], m.n)]
             /\ peer[p][m.who] # P!NoPeer /\ creating' = creating
          \/ peer' = peer /\ P!Ensures(p, {m.who})
      BY <1>2, <1>21 DEF P!PhoneTakesSdp
    <2>3. ASSUME peer' = [peer EXCEPT ![p][m.who] = P!Applied(peer[p][m.who], m.n)],
                 peer[p][m.who] # P!NoPeer, creating' = creating
          PROVE  kept
      <3>1. peer[p][m.who] \in P!Peer
        BY <1>1, <2>1 DEF Typed, P!TypeOK
      <3>2. \/ peer'[p][q] = peer[p][q]
            \/ q = m.who /\ peer'[p][q].src = peer[p][m.who].src
        BY <1>13, <2>1, <2>3, <3>1
      <3>3. Pends(p, q)' => peer[p][q] = P!NoPeer
        BY <1>1, <2>3, SamePends DEF OnePeer
      <3> QED
        BY <2>3, <3>2, <3>3 DEF kept
    <2> QED
      BY <1>7, <1>9, <1>12, <2>2, <2>3 DEF kept
  <1>22. CASE P!PhoneTakesIce(p)
    BY <1>7, <1>22 DEF kept, P!PhoneTakesIce
  <1> QED
    BY <1>14, <1>15, <1>16, <1>17, <1>18, <1>19, <1>20, <1>21, <1>22 DEF kept, Listens

LEMMA ConnectsPeers ==
    ASSUME MeshInv, MaxJoins = 1, NEW p \in P!People, Connects(p), NEW q \in P!People
    PROVE  /\ \/ peer'[p][q] = P!NoPeer
              \/ peer'[p][q].src = 1
              \/ peer[p][q] # P!NoPeer /\ peer'[p][q].src = peer[p][q].src
           /\ Pends(p, q)' => peer'[p][q] = P!NoPeer
  <1>1. Typed /\ OnePeer
    BY DEF MeshInv, OnceInv
  <1>2. ASSUME NEW t \in task[p], P!Described(p, t)
        PROVE  /\ Pends(p, q)' <=> Pends(p, q)
               /\ \/ peer'[p][q] = peer[p][q]
                  \/ peer[p][q] # P!NoPeer /\ peer'[p][q].src = peer[p][q].src
    <2>1. t.who \in P!People /\ creating' = creating /\ t.n # 0
      BY <1>1, <1>2 DEF Typed, P!TypeOK, P!Task, P!Described
    <2> DEFINE new == [peer[p][t.who] EXCEPT !.st = IF t.op = "offer" THEN "offered" ELSE "stable"]
    <2>2. peer' = peer \/ (peer[p][t.who].n = t.n /\ peer' = [peer EXCEPT ![p][t.who] = new])
      BY <1>2 DEF P!Described
    <2>3. /\ peer \in [P!People -> [P!People -> P!Peer]]
          /\ peer[p][t.who].n = t.n => peer[p][t.who] # P!NoPeer
      <3>1. peer \in [P!People -> [P!People -> P!Peer]]
        BY <1>1 DEF Typed, P!TypeOK
      <3>2. P!NoPeer.n = 0
        BY DEF P!NoPeer
      <3> QED
        BY <2>1, <3>1, <3>2
    <2>4. new.src = peer[p][t.who].src
      <3>1. peer[p][t.who] \in P!Peer
        BY <2>1, <2>3
      <3> QED
        BY <3>1 DEF P!Peer
    <2> HIDE DEF new
    <2>5. \/ peer'[p][q] = peer[p][q]
          \/ q = t.who /\ peer[p][q].n = t.n /\ peer'[p][q] = new
      BY <2>1, <2>2, <2>3
    <2> QED
      BY <2>1, <2>3, <2>4, <2>5, SamePends
  <1>3. ASSUME NEW x \in P!People, NEW a \in P!Attempts, P!PhoneCreated(p, x, a)
        PROVE  \/ (Pends(p, q)' <=> Pends(p, q)) /\ peer'[p][q] = peer[p][q]
               \/ ~Pends(p, q)' /\ peer'[p][q].src = 1
    BY <1>3, CreatedOf
  <1> QED
    BY <1>1, <1>2, <1>3 DEF Connects, OnePeer

LEMMA PeersKept ==
    ASSUME MeshInv, OnceInv', MaxJoins = 1, NEW p \in P!People,
           Moves(p) \/ Listens(p) \/ Connects(p)
    PROVE  OnePeer' /\ Sources'
  <1>1. OnceInv /\ Typed /\ Step(p) /\ OnePeer /\ Sources /\ Strangers
    BY OnceSteps DEF MeshInv, OnceInv
  <1> SUFFICES ASSUME NEW x \in P!People, NEW q \in P!People
               PROVE  /\ Pends(x, q)' => peer'[x][q] = P!NoPeer
                      /\ phase'[x] # "out" /\ peer'[x][q] # P!NoPeer => peer'[x][q].src = 1
    BY DEF OnePeer, Sources
  <1>2. CASE x # p
    <2>1. phase'[x] = phase[x] /\ peer'[x] = peer[x] /\ creating'[x] = creating[x]
      BY <1>1, <1>2 DEF Step, Alone
    <2> QED
      BY <1>1, <2>1, SamePends DEF OnePeer, Sources
  <1>3. CASE x = p
    <2>1. phase'[p] # "out" /\ peer[p][q] # P!NoPeer => peer[p][q].src = 1
      <3>1. phase'[p] # "out" => phase[p] # "out" \/ ToEnter(p)
        BY <1>1 DEF Step, Turns, ToEnter
      <3>2. ToEnter(p) => peer[p][q] = P!NoPeer
        BY <1>1 DEF Strangers, Apart
      <3> QED
        BY <1>1, <3>1, <3>2 DEF Sources
    <2>2. p \in Pages => ~Pends(p, q)'
      <3>1. p \in Pages => creating'[p] = {}
        BY DEF OnceInv, Phases, PhaseOf
      <3> QED
        BY <3>1 DEF Pends, P!Pending
    <2>3. CASE Moves(p)
      <3>1. peer'[p][q] \in {peer[p][q], P!NoPeer} /\ (Pends(p, q)' <=> Pends(p, q))
        BY <2>3, MovesCalm DEF Calm
      <3> QED
        BY <1>1, <1>3, <2>1, <3>1 DEF OnePeer
    <2>4. CASE Listens(p)
      BY <1>3, <2>1, <2>2, <2>4, ListensPeers DEF P!People
    <2>5. CASE Connects(p)
      BY <1>3, <2>1, <2>5, ConnectsPeers
    <2> QED
      BY <2>3, <2>4, <2>5
  <1> QED
    BY <1>2, <1>3

LEMMA MeshKept ==
    ASSUME MeshInv, OnceInv', MaxJoins = 1, NEW p \in P!People,
           Moves(p) \/ Listens(p) \/ Connects(p)
    PROVE  MeshInv'
  <1>1. Typed'
    BY DEF OnceInv
  <1> QED
    BY <1>1, NegotiatesKept, StrangersKept, StreamsKept, PeersKept DEF MeshInv
-----------------------------------------------------------------------------
\* What the gateway takes from p, and tells others.
LEMMA ServedSame ==
    ASSUME NEW p \in P!People, Served(p), NEW x \in P!People, NEW y \in P!People
    PROVE  /\ TasksFor(x, y)' = TasksFor(x, y) /\ (Pends(x, y)' <=> Pends(x, y)) /\ peer' = peer
  <1>1. UNCHANGED <<peer, creating, task>>
    BY DEF Served, Frame
  <1> QED
    BY <1>1, SameTasks, SamePends

LEMMA ServedPasses ==
    ASSUME Typed, NEW p \in P!People, Served(p), NEW x \in P!People, NEW y \in P!People,
           x = p => up[p][1] \notin To(y),
           \A m \in FromServer : Fits(p, x, m) => m \notin About(y)
    PROVE  Kept(x, y) /\ (Apart(x, y) => Apart(x, y)')
  <1>1. /\ up[p] \in Seq(ToServer) /\ up[p] # <<>> /\ up'[p] = Tail(up[p]) /\ Head(up[p]) = up[p][1]
        /\ x # p => up'[x] = up[x]
    BY UpFacts DEF Typed, Served, Frame
  <1>2. \A U : Only(up[x], To(y), U) => Only(up'[x], To(y), U)
    BY <1>1, Skipped
  <1>3. \A D : Only(down[x], About(y), D) => Only(down'[x], About(y), D)
    <2>1. CASE down'[x] = down[x]
      BY <2>1
    <2>2. ASSUME NEW m \in FromServer, down'[x] = Append(down[x], m), Fits(p, x, m)
          PROVE  \A D : Only(down[x], About(y), D) => Only(down'[x], About(y), D)
      <3>1. down[x] \in Seq(FromServer)
        BY DEF Typed
      <3> QED
        BY <2>2, <3>1, Added
    <2> QED
      BY <2>1, <2>2 DEF Served, Told
  <1>4. TasksFor(x, y)' = TasksFor(x, y) /\ (Pends(x, y)' <=> Pends(x, y)) /\ peer' = peer
    BY ServedSame
  <1> QED
    BY <1>2, <1>3, <1>4, KeptBy DEF Passes, Apart, Side

LEMMA ServedStrangers ==
    ASSUME MeshInv, MaxJoins = 1, NEW p \in P!People, Served(p)
    PROVE  Strangers'
  <1>1. OnceInv /\ Typed /\ Strangers /\ Frame(p)
    BY DEF MeshInv, OnceInv, Served
  <1>2. ASSUME NEW a \in P!People, NEW b \in P!People, ToEnter(a)' \/ ToEnter(b)', Apart(a, b)
        PROVE  Apart(a, b)'
    <2>1. (ToEnter(a)' => ToEnter(a)) /\ (ToEnter(b)' => ToEnter(b))
      BY <1>1, FrameFacts
    <2>2. (ToEnter(a)' => a \notin room) /\ (ToEnter(b)' => b \notin room)
      BY <1>1, <2>1 DEF OnceInv, Unheard
    <2>3. a = p => up[p][1] \notin To(b)
      BY <1>1, <1>2, UpFacts DEF Apart, Side, Only
    <2>4. ASSUME NEW m \in FromServer, Fits(p, a, m) PROVE m \notin About(b)
      <3>1. CASE m.type = "ack"
        <4>1. up[p][1].type = "join" /\ a = p /\ m.who = room \ {p}
          BY <2>4, <3>1 DEF Fits
        <4>2. ~ToEnter(a)'
          BY <1>1, <4>1, JoinFacts
        <4> QED
          BY <1>2, <2>2, <3>1, <4>1, <4>2 DEF About
      <3>2. CASE m.type = "sdp" /\ m.who = b
        <4>1. b = p /\ a \in room /\ up[p][1].type = "sdp" /\ 1 \in 1..Len(up[p])
          BY <1>1, <2>4, <3>2, UpFacts DEF Fits
        <4>2. ToEnter(p)
          BY <1>2, <2>1, <2>2, <4>1
        <4> QED
          BY <1>1, <4>1, <4>2 DEF OnceInv, Unheard
      <3> QED
        BY <3>1, <3>2 DEF About
    <2> QED
      BY <1>1, <1>2, <2>3, <2>4, ServedPasses
  <1>3. \A q \in P!People : ToEnter(q)' => ToEnter(q)
    BY <1>1, FrameFacts
  <1> QED
    BY <1>1, <1>2, <1>3 DEF Strangers

\* Somebody enters: the ack is the first step.
LEMMA NewcomerNegotiates ==
    ASSUME MeshInv, MaxJoins = 1, NEW p \in P!People, Served(p), Newcomer(p),
           NEW q \in P!People, q # p, Settled(q)'
    PROVE  Negotiate(p, q)'
  <1>1. OnceInv /\ Typed /\ Strangers /\ Frame(p) /\ up[p][1].type = "join"
    BY DEF MeshInv, OnceInv, Served, Newcomer
  <1>2. Settled(q) /\ q \in room
    BY <1>1, SettledServed DEF OnceInv, SettledSee
  <1>3. ToEnter(p)
    BY <1>1, JoinFacts
  <1>4. Apart(p, q) /\ Apart(q, p)
    BY <1>1, <1>3 DEF Strangers
  <1>5. TasksFor(p, q)' = TasksFor(p, q) /\ (Pends(p, q)' <=> Pends(p, q)) /\ peer' = peer
    BY ServedSame
  <1>6. Entered(p, q)'
    <2>1. PICK m \in FromServer : /\ m.type = "ack" /\ m.who = room \ {p}
                                  /\ down'[p] = Append(down[p], m)
      BY DEF Newcomer
    <2>2. m \in About(q) /\ m \in Acks(q)
      BY <1>2, <2>1 DEF About, Acks
    <2>3. down[p] \in Seq(FromServer) /\ Only(down[p], About(q), {})
      BY <1>1, <1>4 DEF Typed, Apart, Side
    <2>4. Only(Append(down[p], m), About(q), Acks(q))
      BY <2>2, <2>3, Added
    <2>5. /\ up[p] \in Seq(ToServer) /\ up[p] # <<>> /\ up'[p] = Tail(up[p])
          /\ Head(up[p]) = up[p][1] /\ Only(up[p], To(q), {})
      BY <1>1, <1>4, UpFacts DEF Typed, Apart, Side, Frame
    <2>6. Head(up[p]) \notin To(q)
      BY <1>1, <2>5 DEF To
    <2>7. Only(up'[p], To(q), {})
      BY <2>5, <2>6, Skipped
    <2> QED
      BY <1>4, <1>5, <2>1, <2>4, <2>7 DEF Entered, Apart, Side
  <1>7. Unasked(q, p)'
    <2>1. \A m \in FromServer : Fits(p, q, m) => m \notin About(p)
      BY <1>1 DEF Fits, About
    <2>2. Apart(q, p)'
      BY <1>1, <1>4, <2>1, ServedPasses
    <2> QED
      BY <2>2 DEF Apart, Unasked, Bare
  <1> QED
    BY <1>6, <1>7 DEF Negotiate

\* A description is passed on: the next step is the other's.
LEMMA RelayNegotiates ==
    ASSUME MeshInv, MaxJoins = 1, NEW p \in P!People, P!Serve(p), Served(p),
           NEW q \in P!People, q # p, q \in room, up[p][1] \in To(q),
           Negotiate(p, q) \/ Negotiate(q, p)
    PROVE  Negotiate(p, q)' \/ Negotiate(q, p)'
  <1>1. Typed /\ Frame(p)
    BY DEF MeshInv, OnceInv, Served
  <1>2. PICK h \in ToServer : h = up[p][1] /\ h = Head(up[p])
    BY <1>1, UpFacts
  <1>3. h.type = "sdp" /\ h.to = q /\ h \in To(q) /\ h.n \in Nat /\ h.op \in {"offer", "answer"}
    BY <1>2 DEF To, ToServer
  <1>4. PICK m \in FromServer : m = [type |-> "sdp", who |-> p, op |-> h.op, n |-> h.n]
    BY <1>3 DEF FromServer
  <1>5. down'[q] = Append(down[q], m)
    <2>1. P!Relay(p, h)
      BY <1>2, <1>3 DEF P!Serve
    <2> QED
      BY <1>3, <1>4, <2>1 DEF P!Relay, P!Tell
  <1>6. /\ up[p] \in Seq(ToServer) /\ up[p] # <<>> /\ up'[p] = Tail(up[p]) /\ up'[q] = up[q]
        /\ down[q] \in Seq(FromServer)
    BY <1>1, UpFacts DEF Typed, Frame
  <1>7. \A x \in P!People, y \in P!People :
            TasksFor(x, y)' = TasksFor(x, y) /\ (Pends(x, y)' <=> Pends(x, y)) /\ peer' = peer
    BY ServedSame
  <1>8. \A x \in P!People, y \in P!People : \A k, st, n :
            (Bare(x, y) => Bare(x, y)') /\ (Has(x, y, k, st, n) => Has(x, y, k, st, n)')
    BY <1>7 DEF Bare, Has
  <1>9. \A D, U, T : Side(p, q, D, U, T) => h \in U /\ Side(p, q, D, {}, T)'
    <2> SUFFICES ASSUME NEW D, NEW U, NEW T, Side(p, q, D, U, T)
                 PROVE  h \in U /\ Side(p, q, D, {}, T)'
      OBVIOUS
    <2>1. h \in U /\ Only(up'[p], To(q), {})
      BY <1>2, <1>3, <1>6, Taken DEF Side
    <2>2. Only(down'[p], About(q), D)
      <3>1. CASE down'[p] = down[p]
        BY <3>1 DEF Side
      <3>2. ASSUME NEW l \in FromServer, down'[p] = Append(down[p], l), Fits(p, p, l)
            PROVE  Only(down'[p], About(q), D)
        <4>1. l \notin About(q)
          BY <1>2, <1>3, <3>2 DEF Fits, About
        <4>2. down[p] \in Seq(FromServer) /\ Only(down[p], About(q), D)
          BY <1>1 DEF Typed, Side
        <4> QED
          BY <3>2, <4>1, <4>2, Added
      <3> QED
        BY <3>1, <3>2 DEF Served, Told
    <2> QED
      BY <1>7, <2>1, <2>2 DEF Side
  <1>10. \A D, U, T : m \in D /\ Side(q, p, {}, U, T) => Side(q, p, D, U, T)'
    <2>1. m \in About(p)
      BY <1>4 DEF About
    <2>2. \A D : m \in D /\ Only(down[q], About(p), {}) => Only(Append(down[q], m), About(p), D)
      BY <1>6, <2>1, Added
    <2> QED
      BY <1>5, <1>6, <1>7, <2>2 DEF Side
  <1>11. \A D, T : ~Side(p, q, D, {}, T)
    BY <1>9
  <1>12. /\ ~Unasked(p, q) /\ ~Entered(p, q) /\ ~Preparing(p, q)
         /\ \A k \in Nat : ~Asked(p, q, k) /\ ~Answering(p, q, k) /\ ~Waits(p, q, k)
         /\ \A k, n \in Nat : ~Done(p, q, k, n) /\ ~Replying(p, q, k, n)
    BY <1>11 DEF Unasked, Entered, Preparing, Asked, Answering, Waits, Done, Replying
  <1>13. ASSUME NEW k \in Nat, Proposed(p, q, k), Unasked(q, p)
         PROVE  Negotiate(p, q)'
    <2>1. h.op = "offer" /\ h.n = k
      BY <1>9, <1>13 DEF Proposed, SdpTo
    <2>2. m \in SdpFrom(p, "offer", k)
      BY <1>4, <2>1 DEF SdpFrom, About
    <2>3. Waits(p, q, k)'
      BY <1>8, <1>9, <1>13 DEF Proposed, Waits
    <2>4. Asked(q, p, k)'
      BY <1>8, <1>10, <1>13, <2>2 DEF Unasked, Asked
    <2> QED
      BY <2>3, <2>4 DEF Negotiate
  <1>14. ASSUME NEW k \in Nat, NEW n \in Nat, Replied(p, q, k, n), Waits(q, p, n)
         PROVE  Negotiate(q, p)'
    <2>1. h.op = "answer" /\ h.n = k
      BY <1>9, <1>14 DEF Replied, SdpTo
    <2>2. m \in SdpFrom(p, "answer", k)
      BY <1>4, <2>1 DEF SdpFrom, About
    <2>3. Done(p, q, k, n)'
      BY <1>8, <1>9, <1>14 DEF Replied, Done
    <2>4. Replying(q, p, n, k)'
      BY <1>8, <1>10, <1>14, <2>2 DEF Waits, Replying
    <2> QED
      BY <2>3, <2>4 DEF Negotiate
  <1>15. Negotiate(p, q) => \E k \in Nat : Proposed(p, q, k) /\ Unasked(q, p)
    BY <1>12 DEF Negotiate
  <1>16. Negotiate(q, p) => \E k, n \in Nat : Replied(p, q, k, n) /\ Waits(q, p, n)
    BY <1>12 DEF Negotiate
  <1> QED
    BY <1>13, <1>14, <1>15, <1>16

LEMMA ServedNegotiates ==
    ASSUME MeshInv, MaxJoins = 1, NEW p \in P!People, P!Serve(p)
    PROVE  Negotiates'
  <1>1. OnceInv /\ Typed /\ Negotiates /\ Served(p) /\ Frame(p)
    BY ServeTells DEF MeshInv, OnceInv, Served
  <1> SUFFICES ASSUME NEW x \in P!People, NEW y \in P!People, x # y, Settled(x)', Settled(y)'
               PROVE  Negotiate(x, y)' \/ Negotiate(y, x)'
    BY DEF Negotiates
  <1>2. Newcomer(p) \/ Leaver(p) \/ Passed(p)
    BY <1>1, ServeKinds
  <1>3. Settled(x) /\ Settled(y) => Negotiate(x, y) \/ Negotiate(y, x)
    BY <1>1 DEF Negotiates
  <1>4. Kept(x, y) /\ Kept(y, x) /\ Settled(x) /\ Settled(y)
        => Negotiate(x, y)' \/ Negotiate(y, x)'
    BY <1>3, KeptAdvances, PairAdvances
  <1>5. CASE Newcomer(p)
    <2>1. up[p][1].type = "join"
      BY <1>5 DEF Newcomer
    <2>2. CASE x = p \/ y = p
      BY <1>1, <1>5, <2>2, NewcomerNegotiates
    <2>3. CASE x # p /\ y # p
      <3>1. \A z, w \in P!People : \A m \in FromServer : z # p /\ Fits(p, z, m) => m \notin About(w)
        BY <2>1 DEF Fits, About
      <3>2. Kept(x, y) /\ Kept(y, x)
        BY <1>1, <2>3, <3>1, ServedPasses
      <3> QED
        BY <1>1, <1>4, <2>3, <3>2, SettledServed
    <2> QED
      BY <2>2, <2>3
  <1>6. CASE Leaver(p)
    <2>1. up[p][1].type = "leave"
      BY <1>6 DEF Leaver
    <2>2. \A z, w \in P!People : \A m \in FromServer : Fits(p, z, m) => m \notin About(w)
      BY <2>1 DEF Fits, About
    <2>3. \A w \in P!People : up[p][1] \notin To(w)
      BY <2>1 DEF To
    <2>4. Kept(x, y) /\ Kept(y, x)
      BY <1>1, <2>2, <2>3, ServedPasses
    <2> QED
      BY <1>1, <1>4, <2>1, <2>4, SettledServed
  <1>7. CASE Passed(p)
    <2>1. up[p][1].type # "join"
      BY <1>7 DEF Passed
    <2>2. Settled(x) /\ Settled(y) /\ x \in room /\ y \in room
      BY <1>1, <2>1, SettledServed DEF OnceInv, SettledSee
    <2>3. CASE (x = p /\ up[p][1] \in To(y)) \/ (y = p /\ up[p][1] \in To(x))
      BY <1>1, <1>3, <2>2, <2>3, RelayNegotiates
    <2>4. CASE (x = p => up[p][1] \notin To(y)) /\ (y = p => up[p][1] \notin To(x))
      <3>1. up[p][1] \in ToServer
        BY <1>1, UpFacts
      <3>2. \A z, w \in P!People : \A m \in FromServer :
                Fits(p, z, m) /\ m \in About(w) => w = p /\ up[p][1] \in To(z)
        BY <2>1, <3>1 DEF Fits, About, To
      <3>3. Kept(x, y) /\ Kept(y, x)
        BY <1>1, <2>4, <3>2, ServedPasses
      <3> QED
        BY <1>4, <2>2, <3>3
    <2> QED
      BY <2>3, <2>4
  <1> QED
    BY <1>2, <1>5, <1>6, <1>7

LEMMA MeshServed ==
    ASSUME MeshInv, OnceInv', MaxJoins = 1, NEW p \in P!People, P!Serve(p)
    PROVE  MeshInv'
  <1>1. Served(p) /\ OnePeer /\ Streams /\ Sources
    BY ServeTells DEF MeshInv, OnceInv
  <1>2. UNCHANGED <<phase, flow, local, running, peer, creating>>
    BY <1>1 DEF Served, Frame
  <1>3. OnePeer' /\ Streams' /\ Sources'
    BY <1>1, <1>2, SamePends DEF OnePeer, Streams, Sources
  <1> QED
    BY <1>1, <1>3, ServedNegotiates, ServedStrangers DEF MeshInv

LEMMA MeshStep ==
    ASSUME MeshInv, MaxJoins = 1, [P!Next]_(P!vars)
    PROVE  MeshInv'
  <1>1. OnceInv'
    BY OnceStep DEF MeshInv
  <1>2. CASE P!Next
    <2>1. PICK p \in P!People : P!Serve(p) \/ Moves(p) \/ Listens(p) \/ Connects(p)
      BY <1>2, StepKinds
    <2> QED
      BY <1>1, <2>1, MeshKept, MeshServed
  <1>3. CASE UNCHANGED P!vars
    <2>1. UNCHANGED <<up, down, phase, tried, flow, local, running, peer, creating, task>>
      BY <1>3 DEF P!vars
    <2>2. \A p : (ToEnter(p)' <=> ToEnter(p)) /\ (Settled(p)' <=> Settled(p))
      BY <2>1 DEF ToEnter, Settled
    <2>3. \A p, q : Kept(p, q) /\ (Apart(p, q) => Apart(p, q)') /\ (Pends(p, q)' <=> Pends(p, q))
      BY <2>1, SameKept, SamePends
    <2>4. Strangers' /\ OnePeer' /\ Streams' /\ Sources'
      BY <2>1, <2>2, <2>3 DEF MeshInv, Strangers, OnePeer, Streams, Sources
    <2>5. \A p, q : Negotiate(p, q) => Negotiate(p, q)'
      BY <2>3, KeptAdvances, PairAdvances
    <2>6. Negotiates'
      BY <2>2, <2>5 DEF MeshInv, Negotiates
    <2> QED
      BY <1>1, <2>4, <2>6 DEF MeshInv
  <1> QED
    BY <1>2, <1>3

LEMMA MeshStarts ==
    ASSUME P!Init, MaxJoins = 1
    PROVE  MeshInv
  <1>1. \A p \in P!People :
            /\ up[p] = <<>> /\ down[p] = <<>> /\ phase[p] = "out" /\ task[p] = {}
            /\ creating[p] = {} /\ \A q \in P!People : peer[p][q] = P!NoPeer
    BY DEF P!Init
  <1>2. \A p, q \in P!People : ~Settled(p) /\ ~Pends(p, q) /\ TasksFor(p, q) = {}
    BY <1>1 DEF Settled, Pends, P!Pending, TasksFor
  <1>3. \A p, q \in P!People : Apart(p, q)
    BY <1>1, <1>2 DEF Apart, Side, Only
  <1> QED
    BY <1>1, <1>2, <1>3, OnceInit
       DEF MeshInv, Negotiates, Strangers, OnePeer, Streams, Sources
-----------------------------------------------------------------------------
\* MeetingCall and MeetingCubit, "a newcomer offers to everyone inside, who comes later offers
\* to us": in whatever order people enter, leave and hear of each other, when nothing is under
\* way any more any two who are inside have each other at the end of their connections, and
\* send a stream that runs, if nobody enters a second time.
THEOREM MembersAreConnected == MaxJoins = 1 /\ TalksSpec => []Meshed
  <1> SUFFICES ASSUME MaxJoins = 1 PROVE TalksSpec => []Meshed
    OBVIOUS
  <1>1. TalksInit => MeshInv
    BY MeshStarts DEF TalksInit
  <1>2. MeshInv /\ [TalksNext]_<<vars, roomVars, meshVars, focus>> => MeshInv'
    BY TalksMove, MeshStep
  <1>3. MeshInv => Meshed
    BY MeshIsMeshed DEF Meshed
  <1> QED
    BY <1>1, <1>2, <1>3, PTL DEF TalksSpec
=============================================================================

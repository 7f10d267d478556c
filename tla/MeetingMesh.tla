---------------------------- MODULE MeetingMesh ----------------------------
(***************************************************************************)
(* A group call as its members see it: the page of the web admin           *)
(* (MeetingCall.tsx), the phone of an employee (meeting_cubit.dart) and    *)
(* the meeting:* handlers of the gateway between them.  Everyone holds one *)
(* peer connection for everyone else; who enters offers to those who are   *)
(* inside, and those answer.                                               *)
(*                                                                         *)
(* One meeting of all, already invited to, and one connection each, which  *)
(* delivers in order and is not lost.  A peer connection is known by its   *)
(* number; what it negotiated is the number of the other end.  Of a        *)
(* candidate there is whom it is from and for; what it does to a           *)
(* connection that is there is left out, as are names, bit rates and the   *)
(* microphone (Meetings has it).                                           *)
(***************************************************************************)
EXTENDS Naturals, Sequences, FiniteSets

CONSTANTS
    Pages, Phones,      \* people at the web admin, others with the app
    MaxJoins,           \* bound: entries attempted by one person
    MaxGone             \* bound: people who gave up or left, at one time

People == Pages \cup Phones

VARIABLES
    open,       \* the room is there
    room,       \* who is inside, for the gateway
    up, down,   \* per person: messages to and from the gateway
    phase,      \* per person: out, opening (getting the microphone), in
    tried,      \* per person: entries attempted so far, which numbers the last
    flow,       \* per person and attempt: what it waits for
    joined,     \* per page: joinedRef
    local,      \* per person: the attempt whose stream is kept, or 0
    live,       \* per person: attempts whose stream is still running
    peer,       \* per person and other: the peer connection
    made,       \* per person and other: connections made so far
    creating,   \* per phone: peer connections being made: for whom, of which stream
    task,       \* per person: offers and answers being made
    members     \* per phone: whom it shows

vars == <<open, room, up, down, phase, tried, flow, joined, local, live, peer, made,
          creating, task, members>>
-----------------------------------------------------------------------------
Attempts == 1..MaxJoins
NoPeer == [n |-> 0, st |-> "none", with |-> 0, src |-> 0]
Peer == [n : Nat, st : {"none", "new", "offered", "remote", "stable"}, with : Nat,
          src : 0..MaxJoins]
Task == [op : {"offer", "answer"}, who : People, n : Nat, of : Nat]

TypeOK ==
    /\ open \in BOOLEAN /\ room \subseteq People
    /\ phase \in [People -> {"out", "opening", "in"}]
    /\ tried \in [People -> 0..MaxJoins]
    /\ flow \in [People -> [Attempts -> {"none", "media", "ice", "ack"}]]
    /\ joined \in [People -> BOOLEAN]
    /\ local \in [People -> 0..MaxJoins]
    /\ live \in [People -> SUBSET Attempts]
    /\ peer \in [People -> [People -> Peer]]
    /\ made \in [People -> [People -> Nat]]
    /\ creating \in [People -> SUBSET (People \X Attempts)]
    /\ task \in [People -> SUBSET Task]
    /\ members \in [People -> SUBSET People]
    /\ \A p \in People : /\ joined[p] => p \in Pages /\ phase[p] = "in"
                         /\ \A q \in People : peer[p][q].n <= made[p][q]
    /\ room # {} => open

Init ==
    /\ open = TRUE /\ room = {}
    /\ up = [p \in People |-> <<>>]
    /\ down = [p \in People |-> <<>>]
    /\ phase = [p \in People |-> "out"]
    /\ tried = [p \in People |-> 0]
    /\ flow = [p \in People |-> [a \in Attempts |-> "none"]]
    /\ joined = [p \in People |-> FALSE]
    /\ local = [p \in People |-> 0]
    /\ live = [p \in People |-> {}]
    /\ peer = [p \in People |-> [q \in People |-> NoPeer]]
    /\ made = [p \in People |-> [q \in People |-> 0]]
    /\ creating = [p \in People |-> {}]
    /\ task = [p \in People |-> {}]
    /\ members = [p \in People |-> {}]
-----------------------------------------------------------------------------
(***************************************************************************)
(* The gateway.  A definition whose name ends in Bug is a plausible        *)
(* mistake in one after it; PROJECT.json says which property finds it.     *)
(***************************************************************************)
Tell(who, m) == down' = [q \in People |-> IF q \in who THEN Append(down[q], m) ELSE down[q]]

JoinBug(p, m) ==                          \* tells no one who is inside
    LET ok == p \in Pages \/ open IN
    /\ open' = (open \/ ok)
    /\ room' = IF ok THEN room \cup {p} ELSE room
    /\ Tell({p}, [type |-> "ack", n |-> m.n, ok |-> ok, who |-> room \ {p}])

\* meeting:join.  Those inside learn of the newcomer, the newcomer of them.
Join(p, m) ==
    LET ok == p \in Pages \/ open
        ack == [type |-> "ack", n |-> m.n, ok |-> ok, who |-> room \ {p}]
    IN
    /\ open' = (open \/ ok)
    /\ room' = IF ok THEN room \cup {p} ELSE room
    /\ down' = [q \in People |->
           IF q = p THEN Append(down[q], ack)
           ELSE IF ok /\ q \in room THEN Append(down[q], [type |-> "joined", who |-> p])
           ELSE down[q]]

\* meeting:leave: the last one out ends the meeting, which everybody is told.
Leave(p) ==
    /\ room' = room \ {p}
    /\ open' = (open /\ room # {p})
    /\ CASE room = {p} -> Tell(People, [type |-> "ended"])
         [] p \in room /\ room # {p} -> Tell(room \ {p}, [type |-> "left", who |-> p])
         [] OTHER -> UNCHANGED down

\* meeting:end
End ==
    /\ room' = {}
    /\ open' = FALSE
    /\ IF open THEN Tell(People, [type |-> "ended"]) ELSE UNCHANGED down

\* meeting:sdp: to whom it is for, if inside; who sends it is not looked at.
Relay(p, m) ==
    /\ Tell({m.to} \cap room, [type |-> "sdp", who |-> p, op |-> m.op, n |-> m.n])
    /\ UNCHANGED <<open, room>>

\* meeting:ice: likewise.
RelayIce(p, m) ==
    /\ Tell({m.to} \cap room, [type |-> "ice", who |-> p])
    /\ UNCHANGED <<open, room>>

Serve(p) ==
    /\ up[p] # <<>>
    /\ up' = [up EXCEPT ![p] = Tail(@)]
    /\ LET m == Head(up[p]) IN
       \/ m.type = "join" /\ Join(p, m)
       \/ m.type = "leave" /\ Leave(p)
       \/ m.type = "end" /\ End
       \/ m.type = "sdp" /\ Relay(p, m)
       \/ m.type = "ice" /\ RelayIce(p, m)
    /\ UNCHANGED <<phase, tried, flow, joined, local, live, peer, made, creating, task, members>>
-----------------------------------------------------------------------------
(***************************************************************************)
(* What page and phone have in common.                                     *)
(***************************************************************************)
Send(p, ms) == up' = [up EXCEPT ![p] = @ \o ms]
Flows(p, a, w) == flow' = [flow EXCEPT ![p][a] = w]
Gone(p) == phase' = [phase EXCEPT ![p] = "out"]

\* fullTeardown and _teardown: what is being made on the phone is not stopped.
Teardown(p) ==
    /\ peer' = [peer EXCEPT ![p] = [q \in People |-> NoPeer]]
    /\ local' = [local EXCEPT ![p] = 0]
    /\ live' = [live EXCEPT ![p] = @ \ {local[p]}]
    /\ joined' = [joined EXCEPT ![p] = FALSE]
    /\ members' = [members EXCEPT ![p] = {}]

\* The bound on those who are out again.
MayGo == Cardinality({p \in People : tried[p] > 0 /\ phase[p] = "out"}) < MaxGone

Still == UNCHANGED <<open, room, made, creating, task>>

\* A person starts to enter.
Start(p) ==
    /\ phase[p] = "out" /\ tried[p] < MaxJoins
    /\ tried' = [tried EXCEPT ![p] = @ + 1]
    /\ phase' = [phase EXCEPT ![p] = "opening"]
    /\ Flows(p, tried[p] + 1, "media")
    /\ UNCHANGED <<up, down, joined, local, live, peer, members>> /\ Still

\* New peer connections of p for those of q who have none yet.
Fresh(p, q) == [n |-> made[p][q] + 1, st |-> "new", with |-> 0, src |-> local[p]]
Creates(p, who) ==
    LET new == {q \in who : peer[p][q] = NoPeer} IN
    /\ peer' = [peer EXCEPT ![p] = [q \in People |-> IF q \in new THEN Fresh(p, q) ELSE @[q]]]
    /\ made' = [made EXCEPT ![p] = [q \in People |-> IF q \in new THEN @[q] + 1 ELSE @[q]]]

Tasks(p, ts) == task' = [task EXCEPT ![p] = @ \cup ts]
Offer(q, n) == [op |-> "offer", who |-> q, n |-> n, of |-> 0]
OffersBug(who, to) == {}                  \* leaves it to those inside
Offers(who, to) == {Offer(q, to[q].n) : q \in who}
Answer(q, n, of) == [op |-> "answer", who |-> q, n |-> n, of |-> of]

\* A description is ready.  One whose connection was closed or replaced, or has
\* seen another description meanwhile, throws; the phone keeps its offer to itself
\* when it is in no meeting any more.
Described(p, t) ==
    LET pc == peer[p][t.who]
        ok == /\ pc.n = t.n
              /\ IF t.op = "offer" THEN pc.st \in {"new", "stable", "offered"}
                 ELSE pc.st = "remote"
        sent == ok /\ (p \in Pages \/ t.op = "answer" \/ phase[p] # "out")
    IN
    /\ t \in task[p] /\ t.n # 0
    /\ task' = [task EXCEPT ![p] = @ \ {t}]
    /\ peer' = IF ok THEN [peer EXCEPT ![p][t.who].st = IF t.op = "offer" THEN "offered" ELSE "stable"]
               ELSE peer
    /\ IF sent
       THEN Send(p, <<[type |-> "sdp", to |-> t.who, op |-> t.op, n |-> t.n]>>)
       ELSE UNCHANGED up
    /\ UNCHANGED <<open, room, down, phase, tried, flow, joined, local, live, made, creating, members>>

\* A connection whose own description is set looks for candidates.  The page listens
\* no more to one it closes; the phone passes on what comes late from one it closed
\* (which is taken to have had a description), be it in the meeting or not.
Seeks(p, q) ==
    \/ peer[p][q].st \in {"offered", "stable"}
    \/ p \in Phones /\ made[p][q] > IF peer[p][q] = NoPeer THEN 0 ELSE 1

\* The bound on candidates: one under way, of somebody of whom nothing else waits.
MayTrickle(p) ==
    /\ up[p] = <<>>
    /\ \A r \in People : /\ \A i \in DOMAIN up[r] : up[r][i].type # "ice"
                         /\ \A i \in DOMAIN down[r] : down[r][i].type # "ice"

Trickles(p, q) ==
    /\ p # q /\ Seeks(p, q) /\ MayTrickle(p)
    /\ Send(p, <<[type |-> "ice", to |-> q]>>)
    /\ UNCHANGED <<open, room, down, phase, tried, flow, joined, local, live, peer, made,
                   creating, task, members>>

Takes(p, type) ==
    /\ down[p] # <<>> /\ Head(down[p]).type = type
    /\ down' = [down EXCEPT ![p] = Tail(@)]

\* An answer is taken by a connection that has offered, whichever offer it is to.
Answered(p, m) ==
    /\ peer' = IF peer[p][m.who].st = "offered"
               THEN [peer EXCEPT ![p][m.who].st = "stable", ![p][m.who].with = m.n]
               ELSE peer
    /\ UNCHANGED <<made, creating, task>>
-----------------------------------------------------------------------------
(***************************************************************************)
(* The page.                                                               *)
(***************************************************************************)
\* start and joinRoom: the stream and the servers are there, and it asks to enter.
PageEnters(p) ==
    /\ p \in Pages /\ phase[p] = "opening"
    /\ phase' = [phase EXCEPT ![p] = "in"]
    /\ local' = [local EXCEPT ![p] = tried[p]]
    /\ live' = [live EXCEPT ![p] = @ \cup {tried[p]}]
    /\ Send(p, <<[type |-> "join", n |-> tried[p]]>>)
    /\ Flows(p, tried[p], "ack")
    /\ UNCHANGED <<down, tried, joined, peer, members>> /\ Still

PageRefused(p) ==
    /\ p \in Pages /\ phase[p] = "opening" /\ MayGo
    /\ Gone(p) /\ Flows(p, tried[p], "none")
    /\ UNCHANGED <<up, down, tried, joined, local, live, peer, members>> /\ Still

\* leave, endForAll and closing the page: joinedRef is set by the ack.
PageLeaves(p, forAll) ==
    /\ p \in Pages /\ phase[p] # "out" /\ MayGo
    /\ Send(p, (IF forAll THEN <<[type |-> "end"]>> ELSE <<>>)
               \o (IF joined[p] THEN <<[type |-> "leave"]>> ELSE <<>>))
    /\ Teardown(p) /\ Gone(p) /\ Flows(p, tried[p], "none")
    /\ UNCHANGED <<down, tried>> /\ Still

\* The ack of the attempt that still is the one: an offer to everyone inside.
PageTakesAck(p) ==
    /\ p \in Pages /\ Takes(p, "ack")
    /\ LET m == Head(down[p]) IN
       CASE flow[p][m.n] # "ack" ->
                UNCHANGED <<phase, flow, joined, local, live, peer, made, task, members>>
         [] flow[p][m.n] = "ack" /\ ~m.ok ->
                /\ Teardown(p) /\ Gone(p) /\ Flows(p, m.n, "none")
                /\ UNCHANGED <<made, task>>
         [] OTHER ->
                /\ joined' = [joined EXCEPT ![p] = TRUE]
                /\ Flows(p, m.n, "none")
                /\ Creates(p, m.who)
                /\ Tasks(p, Offers(m.who, peer'[p]))
                /\ UNCHANGED <<phase, local, live, members>>
    /\ UNCHANGED <<open, room, up, tried, creating>>

\* The handlers of a page that is open; a closed one does not listen.
PageHears(p, type) == p \in Pages /\ Takes(p, type)
Unmoved == UNCHANGED <<open, room, up, phase, tried, flow, joined, local, live, members>>

PageTakesJoined(p) ==
    /\ PageHears(p, "joined")
    /\ Creates(p, IF phase[p] = "out" THEN {} ELSE {Head(down[p]).who})
    /\ UNCHANGED <<creating, task>> /\ Unmoved

\* A candidate is kept with the connection, which is made if there is none.
PageTakesIce(p) ==
    /\ PageHears(p, "ice")
    /\ Creates(p, IF phase[p] = "out" THEN {} ELSE {Head(down[p]).who})
    /\ UNCHANGED <<creating, task>> /\ Unmoved

PageTakesLeft(p) ==
    /\ PageHears(p, "left")
    /\ peer' = [peer EXCEPT ![p][Head(down[p]).who] = NoPeer]
    /\ UNCHANGED <<made, creating, task>> /\ Unmoved

PageTakesEnded(p) ==
    /\ PageHears(p, "ended")
    /\ IF phase[p] = "out"
       THEN UNCHANGED <<phase, flow, joined, local, live, peer, members>>
       ELSE Teardown(p) /\ Gone(p) /\ Flows(p, tried[p], "none")
    /\ UNCHANGED <<up, tried>> /\ Still

\* A description applied to a connection; a browser gives up an offer of its own
\* for the one that comes in.
Applied(pc, n) == [pc EXCEPT !.st = "remote", !.with = n]

PageTakesSdp(p) ==
    /\ PageHears(p, "sdp")
    /\ LET m == Head(down[p]) IN
       CASE phase[p] = "out" -> UNCHANGED <<peer, made, task, creating>>
         [] phase[p] # "out" /\ m.op = "answer" -> Answered(p, m)
         [] OTHER ->
              LET new == peer[p][m.who] = NoPeer
                  pc == IF new THEN Fresh(p, m.who) ELSE peer[p][m.who]
              IN
              /\ peer' = [peer EXCEPT ![p][m.who] = Applied(pc, m.n)]
              /\ made' = [made EXCEPT ![p][m.who] = pc.n]
              /\ Tasks(p, {Answer(m.who, pc.n, m.n)})
              /\ UNCHANGED creating
    /\ Unmoved
-----------------------------------------------------------------------------
(***************************************************************************)
(* The phone.                                                              *)
(***************************************************************************)
Fail(p) == Teardown(p) /\ Gone(p)

\* The microphone is there: looked at is whether the phone is joining, not for which
\* attempt.
PhoneMedia(p, a) ==
    /\ p \in Phones /\ flow[p][a] = "media"
    /\ IF phase[p] = "opening"
       THEN /\ live' = [live EXCEPT ![p] = @ \cup {a}]
            /\ local' = [local EXCEPT ![p] = a]
            /\ Flows(p, a, "ice")
       ELSE Flows(p, a, "none") /\ UNCHANGED <<local, live>>
    /\ UNCHANGED <<up, down, phase, tried, joined, peer, members>> /\ Still

\* No microphone: it fails, whatever goes on by now.
PhoneRefused(p, a) ==
    /\ p \in Phones /\ flow[p][a] = "media" /\ MayGo
    /\ Fail(p) /\ Flows(p, a, "none")
    /\ UNCHANGED <<up, down, tried>> /\ Still

\* The servers are there: it asks to enter, also when it was left meanwhile.
PhoneAsks(p, a) ==
    /\ p \in Phones /\ flow[p][a] = "ice"
    /\ Flows(p, a, "ack")
    /\ Send(p, <<[type |-> "join", n |-> a]>>)
    /\ UNCHANGED <<down, phase, tried, joined, local, live, peer, members>> /\ Still

\* No ack in ten seconds.
PhoneTimesOut(p, a) ==
    /\ p \in Phones /\ flow[p][a] = "ack" /\ MayGo
    /\ Flows(p, a, "none")
    /\ IF phase[p] = "opening" THEN Fail(p)
       ELSE UNCHANGED <<phase, joined, local, live, peer, members>>
    /\ UNCHANGED <<up, down, tried>> /\ Still

PhoneLeaves(p) ==
    /\ p \in Phones /\ phase[p] # "out" /\ MayGo
    /\ Send(p, <<[type |-> "leave"]>>)
    /\ Teardown(p) /\ Gone(p)
    /\ UNCHANGED <<down, tried, flow>> /\ Still

\* _ensure, for each of who: the connection that is there, the one being made, or a
\* new one, of the stream it has; without a stream it throws.
Pending(p) == {c[1] : c \in creating[p]}
Ensures(p, who) ==
    creating' = [creating EXCEPT ![p] = @ \cup
        IF local[p] = 0 THEN {}
        ELSE {q \in who : peer[p][q] = NoPeer /\ q \notin Pending(p)} \X {local[p]}]
Ensured(p, who) == {q \in who : peer[p][q] # NoPeer \/ q \in Pending(p) \/ local[p] # 0}

PhoneTakesAck(p) ==
    /\ p \in Phones /\ Takes(p, "ack")
    /\ LET m == Head(down[p]) IN
       /\ flow' = [flow EXCEPT ![p][m.n] = IF @ = "ack" THEN "none" ELSE @]
       /\ CASE flow[p][m.n] # "ack" \/ phase[p] # "opening" ->
                   UNCHANGED <<phase, joined, local, live, peer, members, task, creating>>
            [] flow[p][m.n] = "ack" /\ phase[p] = "opening" /\ ~m.ok ->
                   Fail(p) /\ UNCHANGED <<task, creating>>
            [] OTHER ->
                   /\ phase' = [phase EXCEPT ![p] = "in"]
                   /\ members' = [members EXCEPT ![p] = m.who]
                   /\ Ensures(p, m.who)
                   /\ Tasks(p, Offers(Ensured(p, m.who), peer[p]))
                   /\ UNCHANGED <<joined, local, live, peer>>
    /\ UNCHANGED <<open, room, up, tried, made>>

PhoneHears(p, type) == p \in Phones /\ Takes(p, type)
PhoneStays == UNCHANGED <<open, room, up, phase, tried, flow, joined, local, live>>

PhoneTakesJoined(p) ==
    /\ PhoneHears(p, "joined")
    /\ LET who == {Head(down[p]).who} IN
       IF phase[p] = "out" THEN UNCHANGED <<members, creating>>
       ELSE /\ members' = [members EXCEPT ![p] = @ \cup who]
            /\ Ensures(p, who)
    /\ UNCHANGED <<peer, made, task>> /\ PhoneStays

\* One that is being made is not stopped.
PhoneTakesLeft(p) ==
    /\ PhoneHears(p, "left")
    /\ peer' = [peer EXCEPT ![p][Head(down[p]).who] = NoPeer]
    /\ members' = [members EXCEPT ![p] = @ \ {Head(down[p]).who}]
    /\ UNCHANGED <<made, creating, task>> /\ PhoneStays

\* A candidate waits for its connection, and makes none.
PhoneTakesIce(p) ==
    /\ PhoneHears(p, "ice")
    /\ UNCHANGED <<peer, made, creating, task, members>> /\ PhoneStays

PhoneTakesEnded(p) ==
    /\ PhoneHears(p, "ended")
    /\ IF phase[p] = "out" THEN UNCHANGED <<phase, joined, local, live, peer, members>> ELSE Fail(p)
    /\ UNCHANGED <<up, tried, flow>> /\ Still

\* Whether the phone's library gives up an offer of its own is not known.
PhoneTakesSdp(p) ==
    /\ PhoneHears(p, "sdp")
    /\ LET m == Head(down[p])
           pc == peer[p][m.who]
       IN
       CASE phase[p] = "out" -> UNCHANGED <<peer, task, creating>>
         [] phase[p] # "out" /\ m.op = "answer" -> Answered(p, m)
         [] phase[p] # "out" /\ m.op = "offer" /\ pc # NoPeer ->
              /\ \/ /\ peer' = [peer EXCEPT ![p][m.who] = Applied(pc, m.n)]
                    /\ Tasks(p, {Answer(m.who, pc.n, m.n)})
                 \/ pc.st = "offered" /\ UNCHANGED <<peer, task>>
              /\ UNCHANGED creating
         [] OTHER ->
              /\ Ensures(p, {m.who})
              /\ Tasks(p, {Answer(q, 0, m.n) : q \in Ensured(p, {m.who})})
              /\ UNCHANGED peer
    /\ UNCHANGED <<made, members>> /\ PhoneStays

\* The connection is made, whatever happened meanwhile, and what waits for it goes on.
PhoneCreated(p, q, a) ==
    LET waiting == {t \in task[p] : t.who = q /\ t.n = 0}
        pc == [Fresh(p, q) EXCEPT !.src = a]
        asked == {t.of : t \in {w \in waiting : w.op = "answer"}}
    IN
    /\ <<q, a>> \in creating[p]
    /\ creating' = [creating EXCEPT ![p] = @ \ {<<q, a>>}]
    /\ made' = [made EXCEPT ![p][q] = pc.n]
    /\ task' = [task EXCEPT ![p] = (@ \ waiting) \cup {[t EXCEPT !.n = pc.n] : t \in waiting}]
    /\ peer' = [peer EXCEPT ![p][q] =
                   IF asked = {} THEN pc
                   ELSE Applied(pc, CHOOSE n \in asked : \A k \in asked : k <= n)]
    /\ UNCHANGED <<down, members>> /\ PhoneStays
-----------------------------------------------------------------------------
Next ==
    \E p \in People :
        \/ Start(p) \/ Serve(p) \/ \E t \in task[p] : Described(p, t)
        \/ \E q \in People : Trickles(p, q)
        \/ PageEnters(p) \/ PageRefused(p)
        \/ \E forAll \in BOOLEAN : PageLeaves(p, forAll)
        \/ PageTakesAck(p) \/ PageTakesJoined(p) \/ PageTakesLeft(p)
        \/ PageTakesEnded(p) \/ PageTakesSdp(p) \/ PageTakesIce(p)
        \/ \E a \in Attempts : PhoneMedia(p, a) \/ PhoneRefused(p, a) \/ PhoneAsks(p, a)
                             \/ PhoneTimesOut(p, a)
        \/ PhoneLeaves(p)
        \/ PhoneTakesAck(p) \/ PhoneTakesJoined(p) \/ PhoneTakesLeft(p)
        \/ PhoneTakesEnded(p) \/ PhoneTakesSdp(p) \/ PhoneTakesIce(p)
        \/ \E q \in People, a \in Attempts : PhoneCreated(p, q, a)

Spec == Init /\ [][Next]_vars
-----------------------------------------------------------------------------
\* Nothing is under way, for anybody.
Quiet ==
    \A p \in People :
        /\ up[p] = <<>> /\ down[p] = <<>> /\ task[p] = {} /\ creating[p] = {}
        /\ \A a \in Attempts : flow[p][a] = "none"

Inside == {p \in room : phase[p] = "in"}

\* Each has the other at the end of its connection, and sends a stream that runs.
Linked(p, q) ==
    LET a == peer[p][q]  b == peer[q][p] IN
    /\ a.st = "stable" /\ a.with = b.n /\ a.src \in live[p]
    /\ b.st = "stable" /\ b.with = a.n /\ b.src \in live[q]

Shown(p) == IF p \in Pages THEN {q \in People : peer[p][q] # NoPeer} ELSE members[p]

\* "A newcomer offers to everyone inside, who comes later offers to us": in whatever
\* order they enter, leave and hear of each other, two people inside end up connected.
\* (Not if somebody enters a second time.)
Meshed == Quiet => \A p, q \in Inside : p # q => Linked(p, q)

\* ... and each is shown the others who are inside, and nobody else: a phone exactly
\* those, a page besides them at most phones, whose candidates may come after they have
\* left.  (Not if somebody enters a second time.)
ShownAreInside ==
    Quiet => \A p \in Inside :
        /\ room \ {p} \subseteq Shown(p) /\ p \notin Shown(p)
        /\ Shown(p) \ room \subseteq (IF p \in Pages THEN Phones ELSE {})
-----------------------------------------------------------------------------
(***************************************************************************)
(* What the repository says and the code does not keep.                    *)
(***************************************************************************)

\* "Tiles": a page shows nobody who is not inside, also if all enter once.
TilesAreInside == Quiet => \A p \in Inside \cap Pages : Shown(p) \subseteq room

\* Leaving "tells the server": who has left is not inside.
LeaverIsOut == Quiet => \A p \in room : phase[p] # "out"

\* "... ended, everything released": who is out has neither a stream nor a connection.
PeersReleased ==
    Quiet => \A p \in People : phase[p] = "out" =>
        live[p] = {} /\ \A q \in People : peer[p][q] = NoPeer

\* No microphone runs for an attempt that is not the one.
OneStream == \A p \in People : live[p] \subseteq {local[p]}
=============================================================================

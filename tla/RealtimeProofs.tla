--------------------------- MODULE RealtimeProofs ---------------------------
(***************************************************************************)
(* Proofs about Realtime, for any number of users, connections and calls:  *)
(* the gateway implements Calls and Presence, and nobody is left in an     *)
(* answered call with somebody who is gone.                                *)
(***************************************************************************)
EXTENDS Realtime, TLAPS

\* Calls again, with what is proved about it.
CP == INSTANCE CallsProofs

LEMMA CallsAssumption == CP!ConstantsAssumption
  BY RealtimeAssumption DEF CP!ConstantsAssumption

LEMMA SameRequests == \A h, u : C!Request(h, u) <=> CP!Request(h, u)
  BY DEF C!Request, C!Invite, C!Accept, C!Reject, C!Cancel, C!End, C!HangUp, C!ClearRing,
         C!Finishing, C!At, C!Await, C!Fresh, C!IsBusy, C!ActiveFor, C!Party,
         CP!Request, CP!Invite, CP!Accept, CP!Reject, CP!Cancel, CP!End, CP!HangUp, CP!ClearRing,
         CP!Finishing, CP!At, CP!Await, CP!Fresh, CP!IsBusy, CP!ActiveFor, CP!Party

LEMMA SameResumes == \A s : C!Resume(s) <=> CP!Resume(s)
  BY DEF C!Resume, C!Created, C!Recorded, C!InsertFails, C!Accepted, C!Finished, C!TearDown,
         C!Writes, C!Idle, C!ClearRing, C!Finishing, C!At, C!Await,
         CP!Resume, CP!Created, CP!Recorded, CP!InsertFails, CP!Accepted, CP!Finished, CP!TearDown,
         CP!Writes, CP!Idle, CP!ClearRing, CP!Finishing, CP!At, CP!Await

LEMMA SameTimers ==
    /\ \A c : C!RingFires(c) <=> CP!RingFires(c)
    /\ \A u : C!EndCallsFor(u) <=> CP!EndCallsFor(u)
  BY DEF C!RingFires, C!EndCallsFor, C!TearDown, C!ActiveFor, C!Party, C!Idle, C!ClearRing,
         C!Finishing, C!At, C!Await,
         CP!RingFires, CP!EndCallsFor, CP!TearDown, CP!ActiveFor, CP!Party, CP!Idle, CP!ClearRing,
         CP!Finishing, CP!At, CP!Await

\* No step of the gateway does to calls what the calls service does not do ...
LEMMA CallsStep == [Next]_vars => [CP!Next]_(CP!vars)
  <1> SUFFICES ASSUME [Next]_vars PROVE [CP!Next]_(CP!vars)
    OBVIOUS
  <1>1. ASSUME NEW h \in Handlers, Request(h) PROVE CP!Next
    BY <1>1, SameRequests DEF Request, CP!Next
  <1>2. ASSUME NEW s \in C!Slots, Resume(s) PROVE CP!Next
    <2>1. C!Resume(s) /\ s \in CP!Slots
      BY <1>2 DEF Resume, Created, C!Resume, C!Slots, CP!Slots
    <2>2. QED
      BY <2>1, SameResumes DEF CP!Next
  <1>3. ASSUME NEW c \in Ids, RingFires(c) PROVE CP!Next
    BY <1>3, SameTimers DEF RingFires, CP!Next
  <1>4. ASSUME NEW s \in Sockets, Come(s) \/ Leave(s) \/ Mirrored(s) PROVE UNCHANGED CP!vars
    BY <1>4 DEF Come, Leave, Mirrored, callVars, CP!vars
  <1>5. ASSUME NEW u \in Users, GraceExpires(u) PROVE [CP!Next]_(CP!vars)
    BY <1>5, SameTimers DEF GraceExpires, callVars, CP!Next, CP!vars
  <1>6. CASE UNCHANGED vars
    BY <1>6 DEF vars, callVars, CP!vars
  <1>7. QED
    BY <1>1, <1>2, <1>3, <1>4, <1>5, <1>6 DEF Next

\* ... nor to presence what connections and timers do not do.
LEMMA PresenceStep == [Next]_vars => [P!Next]_(P!presenceVars)
  <1> SUFFICES ASSUME [Next]_vars PROVE [P!Next]_(P!presenceVars)
    OBVIOUS
  <1>1. ASSUME NEW s \in Sockets, Come(s) \/ Leave(s) \/ Mirrored(s) PROVE P!Next
    BY <1>1 DEF Come, Leave, Mirrored, P!Next
  <1>2. ASSUME NEW u \in Users, GraceExpires(u) PROVE P!Next
    BY <1>2 DEF GraceExpires, P!Next
  <1>3. CASE UNCHANGED presenceVars
    BY <1>3 DEF presenceVars, P!presenceVars
  <1>4. QED
    BY <1>1, <1>2, <1>3 DEF Next, Request, Resume, Created, RingFires, vars
-----------------------------------------------------------------------------
(***************************************************************************)
(* The strengthening.  A call becomes live with its caller watched only if *)
(* the caller was watched while it was inserted, and an answered call had  *)
(* a watched caller when it was still ringing.                             *)
(***************************************************************************)
Watched(u) == P!IsOnline(u) \/ P!Leaving(u) \/ grace[u]

\* Whoever is calling, or in a call.
Bound(c, u) ==
    live[c] /\ (call[c].caller = u \/ (call[c].status = "accepted" /\ call[c].callee = u))

CallersWatched == \A h \in Handlers : job[h].pc = "create" => Watched(job[h].caller)

BoundWatched ==
    \A c \in Ids, u \in Users :
        Bound(c, u) => Watched(u) \/ C!InFlight(c) \/ TearingDown(u, c)

IInv ==
    /\ P!TypeOK /\ P!ConnectedIsOnline
    /\ CP!IInv
    /\ pushed \in [Ids -> BOOLEAN]
    /\ CallersWatched /\ BoundWatched
-----------------------------------------------------------------------------
LEMMA InitHolds == Init => IInv
  <1> SUFFICES ASSUME Init PROVE IInv
    OBVIOUS
  <1>1. CP!IInv
    <2>1. CP!Init
      BY DEF Init, C!Init, CP!Init, C!NoCall, CP!NoCall, C!Idle, CP!Idle, C!Slots, CP!Slots
    <2>2. QED
      BY <2>1, CP!InitHolds, CallsAssumption
  <1>2. P!TypeOK /\ P!ConnectedIsOnline
    BY RealtimeAssumption DEF Init, P!Init, P!TypeOK, P!ConnectedIsOnline, P!Stages
  <1>3. CallersWatched /\ BoundWatched
    BY DEF Init, C!Init, CallersWatched, BoundWatched, Bound, C!Idle, C!Slots
  <1>4. QED
    BY <1>1, <1>2, <1>3 DEF Init, IInv

\* The registry: who is open is in it, under their own name.
Registry ==
    /\ sock \in [Sockets -> P!Stages] /\ online \in [Users -> SUBSET Sockets]
    /\ shown \in [Users -> BOOLEAN] /\ grace \in [Users -> BOOLEAN]
    /\ \A u \in Users : \A s \in online[u] : Owner[s] = u
    /\ \A s \in Sockets : sock[s] = "on" => s \in online[Owner[s]]

\* A connection that is leaving is one whose "offline" write is awaited.
Writes ==
    /\ mirroring \in [Sockets -> SUBSET BOOLEAN]
    /\ \A s \in Sockets : sock[s] = "leaving" <=> FALSE \in mirroring[s]
    /\ \A s \in Sockets : mirroring[s] # {} => Owner[s] \in Staff

LEMMA Parts == P!TypeOK /\ P!ConnectedIsOnline <=> Registry /\ Writes
  BY Zenon DEF P!TypeOK, P!ConnectedIsOnline, Registry, Writes

LEMMA WritesChange ==
    ASSUME Writes, NEW s \in Sockets, NEW m \in SUBSET BOOLEAN,
           mirroring' = [mirroring EXCEPT ![s] = m],
           sock'[s] = "leaving" <=> FALSE \in m,
           m # {} => Owner[s] \in Staff,
           \A t \in Sockets : t # s => sock'[t] = sock[t]
    PROVE  Writes'
  <1>1. mirroring \in [Sockets -> SUBSET BOOLEAN]
    BY Zenon DEF Writes
  <1>2. mirroring'[s] = m /\ \A t \in Sockets : t # s => mirroring'[t] = mirroring[t]
    BY <1>1, Zenon
  <1>3. mirroring' \in [Sockets -> SUBSET BOOLEAN]
    BY <1>1, Zenon
  <1>4. QED
    BY <1>2, <1>3, Zenon DEF Writes

LEMMA WritesStay ==
    ASSUME Writes, UNCHANGED mirroring,
           \A t \in Sockets : sock'[t] = "leaving" <=> sock[t] = "leaving"
    PROVE  Writes'
  BY Zenon DEF Writes

\* The identity is there: the connection joins the registry.
LEMMA ResolvedStep ==
    ASSUME Registry, Writes, NEW s \in Sockets, P!Resolved(s)
    PROVE  Registry' /\ Writes'
  <1>1. Owner[s] \in Users /\ sock[s] \in {"resolving", "lost"}
    BY RealtimeAssumption DEF P!Resolved
  <1>2. /\ sock' \in [Sockets -> P!Stages] /\ sock'[s] \in {"off", "on"}
        /\ \A t \in Sockets : t # s => sock'[t] = sock[t]
    BY <1>1 DEF P!Resolved, Registry, P!Stages
  <1>3. /\ online' \in [Users -> SUBSET Sockets]
        /\ \A u \in Users : online'[u] = IF u = Owner[s] THEN online[u] \cup {s} ELSE online[u]
    BY <1>1 DEF P!Resolved, Registry
  <1>4. shown' \in [Users -> BOOLEAN] /\ grace' \in [Users -> BOOLEAN]
    BY <1>1 DEF P!Resolved, Registry
  <1>5. Registry'
    BY <1>2, <1>3, <1>4, RealtimeAssumption DEF Registry
  <1>6. CASE mirroring' = mirroring
    BY <1>1, <1>2, <1>5, <1>6, WritesStay
  <1>7. CASE /\ Owner[s] \in Staff
             /\ mirroring' = [mirroring EXCEPT ![s] = mirroring[s] \cup {TRUE}]
    <2>1. sock[s] # "leaving" /\ sock'[s] # "leaving"
      BY <1>1, <1>2
    <2>2. /\ mirroring[s] \cup {TRUE} \in SUBSET BOOLEAN
          /\ FALSE \notin mirroring[s] \cup {TRUE}
      BY <2>1, Zenon DEF Writes
    <2>3. Writes'
      BY <1>2, <1>7, <2>1, <2>2, WritesChange, Zenon
    <2>4. QED
      BY <1>5, <2>3
  <1>8. QED
    BY <1>5, <1>6, <1>7 DEF P!Resolved

\* The connection leaves the registry, and no other.
LEMMA DisconnectStep ==
    ASSUME Registry, Writes, NEW s \in Sockets, P!Disconnect(s)
    PROVE  Registry' /\ Writes'
  <1> DEFINE last == online[Owner[s]] = {s} /\ Owner[s] \in Staff
  <1>1. Owner[s] \in Users /\ sock[s] = "on"
    BY RealtimeAssumption DEF P!Disconnect
  <1>2. /\ sock' \in [Sockets -> P!Stages] /\ sock'[s] = IF last THEN "leaving" ELSE "off"
        /\ \A t \in Sockets : t # s => sock'[t] = sock[t]
    BY <1>1 DEF P!Disconnect, Registry, P!Stages
  <1>3. /\ online' \in [Users -> SUBSET Sockets]
        /\ \A u \in Users : online'[u] = IF u = Owner[s] THEN online[u] \ {s} ELSE online[u]
    BY <1>1 DEF P!Disconnect, Registry
  <1>4. shown' \in [Users -> BOOLEAN] /\ grace' \in [Users -> BOOLEAN]
    BY <1>1 DEF P!Disconnect, Registry
  <1>5. Registry'
    BY <1>2, <1>3, <1>4, RealtimeAssumption DEF Registry
  <1>6. CASE last
    <2>1. /\ sock'[s] = "leaving" /\ Owner[s] \in Staff
          /\ mirroring' = [mirroring EXCEPT ![s] = mirroring[s] \cup {FALSE}]
      BY <1>2, <1>6 DEF P!Disconnect
    <2>2. mirroring[s] \cup {FALSE} \in SUBSET BOOLEAN /\ FALSE \in mirroring[s] \cup {FALSE}
      BY Zenon DEF Writes
    <2>3. Writes'
      BY <1>2, <2>1, <2>2, WritesChange, Zenon
    <2>4. QED
      BY <1>5, <2>3
  <1>7. CASE ~last
    <2>1. mirroring' = mirroring /\ sock'[s] = "off"
      BY <1>2, <1>7 DEF P!Disconnect
    <2>2. QED
      BY <1>1, <1>2, <1>5, <2>1, WritesStay
  <1>8. QED
    BY <1>6, <1>7

\* A mirror write lands: it is awaited no longer.
LEMMA MirroredStep ==
    ASSUME Registry, Writes, NEW s \in Sockets, NEW value \in BOOLEAN, P!Mirrored(s, value)
    PROVE  Registry' /\ Writes'
  <1>1. Owner[s] \in Users /\ value \in mirroring[s] /\ UNCHANGED online
    BY RealtimeAssumption DEF P!Mirrored
  <1>2. /\ sock' \in [Sockets -> P!Stages] /\ sock'[s] = IF value THEN sock[s] ELSE "off"
        /\ \A t \in Sockets : t # s => sock'[t] = sock[t]
    BY <1>1 DEF P!Mirrored, Registry, P!Stages
  <1>3. grace' \in [Users -> BOOLEAN]
    BY <1>1 DEF P!Mirrored, Registry
  <1>4. shown' \in [Users -> BOOLEAN]
    BY <1>1 DEF P!Mirrored, Registry
  <1>5. Registry'
    BY <1>1, <1>2, <1>3, <1>4 DEF Registry
  <1>6. mirroring' = [mirroring EXCEPT ![s] = mirroring[s] \ {value}]
    BY Zenon DEF P!Mirrored
  <1>7. mirroring[s] \ {value} \in SUBSET BOOLEAN
    BY Zenon DEF Writes
  <1>8. (mirroring[s] \ {value}) # {} => Owner[s] \in Staff
    BY <1>1, Zenon DEF Writes
  <1>9. sock'[s] = "leaving" <=> FALSE \in mirroring[s] \ {value}
    <2>1. CASE value = TRUE
      <3>1. sock'[s] = sock[s]
        BY <1>2, <2>1
      <3>2. QED
        BY <2>1, <3>1, Zenon DEF Writes
    <2>2. CASE value = FALSE
      <3>1. sock'[s] # "leaving"
        BY <1>2, <2>2
      <3>2. QED
        BY <2>2, <3>1, Zenon
    <2>3. QED
      BY <2>1, <2>2
  <1>10. Writes'
    BY <1>2, <1>6, <1>7, <1>8, <1>9, WritesChange, Zenon
  <1>11. QED
    BY <1>5, <1>10

\* Connections come and go: the registry keeps its shape, and whoever is open is in it.
LEMMA PresenceInductive ==
    ASSUME P!TypeOK, P!ConnectedIsOnline, [P!Next]_(P!presenceVars)
    PROVE  P!TypeOK' /\ P!ConnectedIsOnline'
  <1>1. Registry /\ Writes
    BY Parts
  <1>2. ASSUME NEW s \in Sockets, P!Connect(s) \/ P!Refused(s) \/ P!Drop(s)
        PROVE  Registry' /\ Writes'
    <2>1. /\ sock' \in [Sockets -> P!Stages] /\ sock[s] # "leaving"
          /\ sock'[s] \notin {"on", "leaving"}
          /\ \A t \in Sockets : t # s => sock'[t] = sock[t]
          /\ UNCHANGED <<online, mirroring, shown, grace>>
      BY <1>1, <1>2 DEF P!Connect, P!Refused, P!Drop, Registry, P!Stages
    <2>2. Registry'
      BY <1>1, <2>1 DEF Registry
    <2>3. QED
      BY <1>1, <2>1, <2>2, WritesStay
  <1>3. ASSUME NEW u \in Users, P!GraceExpires(u) PROVE Registry' /\ Writes'
    <2>1. Registry'
      BY <1>1, <1>3 DEF P!GraceExpires, Registry
    <2>2. QED
      BY <1>1, <1>3, <2>1, WritesStay DEF P!GraceExpires
  <1>4. UNCHANGED P!presenceVars => Registry' /\ Writes'
    BY <1>1, Zenon DEF P!presenceVars, Registry, Writes
  <1>5. Registry' /\ Writes'
    BY <1>1, <1>2, <1>3, <1>4, ResolvedStep, DisconnectStep, MirroredStep DEF P!Next
  <1>6. QED
    BY <1>5, Parts, PTL

-----------------------------------------------------------------------------
\* Somebody who is watched stays so, until the timer finds them away.
LEMMA WatchedStays ==
    ASSUME Registry, NEW u \in Users, Watched(u),
           \/ UNCHANGED presenceVars
           \/ \E s \in Sockets : Come(s) \/ Leave(s) \/ Mirrored(s)
           \/ \E v \in Users : P!GraceExpires(v) /\ (v = u => P!IsOnline(u))
    PROVE  Watched(u)'
  <1> USE RealtimeAssumption DEF Registry, P!Stages, Watched, P!IsOnline, P!Leaving
  <1>1. CASE UNCHANGED presenceVars
    BY <1>1 DEF presenceVars
  <1>2. ASSUME NEW s \in Sockets, P!Connect(s) \/ P!Refused(s) \/ P!Drop(s) PROVE Watched(u)'
    BY <1>2 DEF P!Connect, P!Refused, P!Drop
  <1>3. ASSUME NEW s \in Sockets, P!Resolved(s) PROVE Watched(u)'
    BY <1>3 DEF P!Resolved
  <1>4. ASSUME NEW s \in Sockets, P!Disconnect(s) PROVE Watched(u)'
    BY <1>4 DEF P!Disconnect
  <1>5. ASSUME NEW s \in Sockets, NEW value \in BOOLEAN, P!Mirrored(s, value) PROVE Watched(u)'
    BY <1>5 DEF P!Mirrored
  <1>6. ASSUME NEW v \in Users, P!GraceExpires(v), v = u => P!IsOnline(u) PROVE Watched(u)'
    BY <1>6 DEF P!GraceExpires
  <1>7. QED
    BY <1>1, <1>2, <1>3, <1>4, <1>5, <1>6 DEF Come, Leave, Mirrored

\* A call is being ended: some slot ends it now, or the user's teardown will.
Ends(s, u, c) == job[s].pc = "finish" /\ (job[s].id = c \/ (s = u /\ c \in job[s].rest))

Ending(u, c) == C!InFlight(c) \/ TearingDown(u, c)

LEMMA SomeSlotEnds ==
    ASSUME NEW u \in Users, NEW c \in Ids
    PROVE  /\ Ending(u, c) <=> \E s \in C!Slots : Ends(s, u, c)
           /\ Ending(u, c)' <=> \E s \in C!Slots : Ends(s, u, c)'
  BY DEF Ending, Ends, C!InFlight, C!At, C!Slots, TearingDown

\* Only the slot that moves on can stop ending a call.
LEMMA OneSlotMoves ==
    ASSUME NEW u \in Users, NEW c \in Ids, Ending(u, c), NEW s \in C!Slots, NEW j,
           job \in [C!Slots -> C!Job \cup {C!Idle}], job' = [job EXCEPT ![s] = j],
           Ends(s, u, c) => j.pc = "finish" /\ (j.id = c \/ (s = u /\ c \in j.rest))
    PROVE  Ending(u, c)'
  <1>1. job'[s] = j /\ \A t \in C!Slots : t # s => job'[t] = job[t]
    OBVIOUS
  <1>2. QED
    BY <1>1, SomeSlotEnds DEF Ends

\* A call that somebody is ending is ended by them: it leaves the map first.
LEMMA EndingStays ==
    ASSUME CP!IInv, [CP!Next]_(CP!vars), NEW u \in Users, NEW c \in Ids, Ending(u, c), live'[c]
    PROVE  Ending(u, c)'
  <1>1. job \in [C!Slots -> C!Job \cup {C!Idle}] /\ live \in [Ids -> BOOLEAN]
    BY DEF CP!IInv, CP!TypeOK, CP!Slots, C!Slots, CP!Job, C!Job, CP!Idle, C!Idle,
           CP!Endings, C!Endings
  <1>2. C!Slots = CP!Slots /\ Handlers \subseteq C!Slots /\ Ids \subseteq C!Slots /\ Users \subseteq C!Slots
    BY DEF C!Slots, CP!Slots
  <1>3. ASSUME NEW s \in C!Slots, job[s].pc # "finish", NEW j, job' = [job EXCEPT ![s] = j]
        PROVE  Ending(u, c)'
    BY <1>1, <1>3, OneSlotMoves DEF Ends
  <1>4. ASSUME NEW h \in Handlers, NEW v \in Users, CP!Request(h, v) PROVE Ending(u, c)'
    BY <1>2, <1>3, <1>4 DEF CP!Request, CP!Invite, CP!Accept, CP!Reject, CP!Cancel, CP!End,
                            CP!HangUp, CP!At, CP!Await
  <1>5. ASSUME NEW s \in C!Slots, CP!Created(s) \/ CP!Recorded(s) \/ CP!InsertFails(s) \/ CP!Accepted(s)
        PROVE  Ending(u, c)'
    BY <1>3, <1>5 DEF CP!Created, CP!Recorded, CP!InsertFails, CP!Accepted, CP!At, CP!Await
  <1>6. ASSUME NEW s \in C!Slots, CP!Finished(s) PROVE Ending(u, c)'
    <2>1. job[s].id # c
      BY <1>1, <1>6 DEF CP!Finished
    <2>2. CASE job[s].rest = {} /\ CP!Await(s, CP!Idle)
      BY <1>1, <2>1, <2>2, OneSlotMoves DEF CP!Await, Ends
    <2>3. ASSUME NEW d \in job[s].rest, NEW st, CP!Await(s, CP!Finishing(d, st, job[s].rest \ {d}))
          PROVE  Ending(u, c)'
      <3> DEFINE j == CP!Finishing(d, st, job[s].rest \ {d})
      <3>1. j.pc = "finish" /\ j.id = d /\ j.rest = job[s].rest \ {d}
        BY DEF CP!Finishing
      <3>2. job' = [job EXCEPT ![s] = j]
        BY <2>3 DEF CP!Await
      <3> HIDE DEF j
      <3>3. QED
        BY <1>1, <2>1, <3>1, <3>2, OneSlotMoves DEF Ends
    <2>4. QED
      BY <1>6, <2>2, <2>3 DEF CP!Finished, CP!TearDown
  <1>7. ASSUME NEW d \in Ids, CP!RingFires(d) PROVE Ending(u, c)'
    <2>1. CASE UNCHANGED job
      BY <2>1, SomeSlotEnds DEF Ends
    <2>2. CASE CP!Await(d, CP!Finishing(d, "missed", {}))
      <3> DEFINE j == CP!Finishing(d, "missed", {})
      <3>1. j.pc = "finish" /\ j.id = d
        BY DEF CP!Finishing
      <3>2. job' = [job EXCEPT ![d] = j]
        BY <2>2 DEF CP!Await
      <3> HIDE DEF j
      <3>3. Ends(d, u, c) => c = d
        BY DEF Ends, CP!IInv, CP!OwnTimer, CP!At
      <3>4. QED
        BY <1>1, <1>2, <3>1, <3>2, <3>3, OneSlotMoves
    <2>3. QED
      BY <1>7, <2>1, <2>2 DEF CP!RingFires
  <1>8. ASSUME NEW v \in Users, CP!EndCallsFor(v) PROVE Ending(u, c)'
    BY <1>2, <1>3, <1>8 DEF CP!EndCallsFor, CP!TearDown, CP!At, CP!Await
  <1>9. CASE UNCHANGED CP!vars
    BY <1>9, SomeSlotEnds DEF CP!vars, Ends
  <1>10. QED
    BY <1>2, <1>4, <1>5, <1>6, <1>7, <1>8, <1>9 DEF CP!Next, CP!Resume
-----------------------------------------------------------------------------
\* Whoever a step binds to a call was bound to it, or is watched.
LEMMA NewlyBound ==
    ASSUME IInv, Next, NEW u \in Users, NEW c \in Ids, Bound(c, u)'
    PROVE  Bound(c, u) \/ Watched(u)
  <1>1. /\ call \in [Ids -> C!Call \cup {C!NoCall}] /\ live \in [Ids -> BOOLEAN]
        /\ P!ConnectedIsOnline /\ CallersWatched /\ CP!Reserved
        /\ job \in [C!Slots -> C!Job \cup {C!Idle}]
    BY DEF IInv, CP!IInv, CP!TypeOK, CP!Slots, C!Slots, CP!Job, C!Job, CP!Idle, C!Idle,
           CP!Endings, C!Endings, CP!Call, C!Call, CP!NoCall, C!NoCall
  <1>2. CASE UNCHANGED <<call, live>>
    BY <1>2 DEF Bound
  <1>3. ASSUME NEW h \in Handlers, NEW v \in Users, NEW d \in Ids, P!Connected(v), C!Accept(h, v, d)
        PROVE  Bound(c, u) \/ Watched(u)
    <2>1. P!IsOnline(v)
      BY <1>1, <1>3, RealtimeAssumption DEF P!Connected, P!IsOnline, P!ConnectedIsOnline
    <2>2. UNCHANGED live /\ live[d] /\ call[d].callee = v /\ \A e \in Ids : e # d => call'[e] = call[e]
      BY <1>1, <1>3 DEF C!Accept
    <2>3. call'[d].caller = call[d].caller /\ call'[d].callee = call[d].callee
      BY <1>1, <1>3 DEF C!Accept, C!Call, C!NoCall
    <2>4. QED
      BY <2>1, <2>2, <2>3 DEF Bound, Watched
  <1>4. ASSUME NEW h \in C!Slots, C!Created(h) PROVE Bound(c, u) \/ Watched(u)
    <2> DEFINE d == job[h].id
    <2>1. h \in Handlers /\ job[h].pc = "create"
      BY <1>1, <1>4 DEF C!Created, C!At, CP!Reserved, CP!Inserting, CP!At, C!Slots, CP!Slots
    <2>2. Watched(job[h].caller)
      BY <1>1, <2>1 DEF CallersWatched
    <2>3. /\ c = d => call'[c] = [caller |-> job[h].caller, callee |-> job[h].callee,
                                  status |-> "ringing"]
          /\ c # d => call'[c] = call[c] /\ live'[c] = live[c]
      BY <1>1, <1>4 DEF C!Created
    <2> HIDE DEF d
    <2>4. CASE c = d
      <3>1. call'[c].caller = job[h].caller /\ call'[c].status = "ringing"
        BY <2>3, <2>4
      <3>2. u = job[h].caller
        BY <3>1 DEF Bound
      <3>3. QED
        BY <2>2, <3>2
    <2>5. CASE c # d
      BY <2>3, <2>5 DEF Bound
    <2>6. QED
      BY <2>4, <2>5
  <1>5. ASSUME NEW s \in C!Slots, C!Finished(s) PROVE Bound(c, u) \/ Watched(u)
    BY <1>1, <1>5 DEF C!Finished, Bound
  <1>6. QED
    BY <1>2, <1>3, <1>4, <1>5
    DEF Next, Request, C!Request, C!Invite, C!Reject, C!Cancel, C!End, C!HangUp,
        Resume, Created, C!Recorded, C!InsertFails, C!Accepted, RingFires, C!RingFires,
        Come, Leave, Mirrored, GraceExpires, C!EndCallsFor, callVars

\* The timer that finds its user away begins to end every call of theirs.
LEMMA EveryCallIsTornDown ==
    ASSUME IInv, NEW u \in Users, C!EndCallsFor(u), NEW c \in Ids, Bound(c, u)
    PROVE  Ending(u, c)'
  <1>1. c \in C!ActiveFor(u) /\ u \in C!Slots /\ job \in [C!Slots -> C!Job \cup {C!Idle}]
    BY DEF Bound, C!ActiveFor, C!Party, C!Slots, IInv, CP!IInv, CP!TypeOK, CP!Slots, C!Slots,
           CP!Job, C!Job, CP!Idle, C!Idle, CP!Endings, C!Endings
  <1>2. PICK d \in C!ActiveFor(u), st \in {"ended", "missed"} :
            job' = [job EXCEPT ![u] = C!Finishing(d, st, C!ActiveFor(u) \ {d})]
    BY <1>1 DEF C!EndCallsFor, C!TearDown, C!Await
  <1>3. job'[u].pc = "finish" /\ job'[u].id = d /\ job'[u].rest = C!ActiveFor(u) \ {d}
    BY <1>1, <1>2 DEF C!Finishing
  <1>4. QED
    BY <1>1, <1>3, SomeSlotEnds DEF Ends

\* A caller is watched from the request until the call is there.
LEMMA CallersStayWatched ==
    ASSUME IInv, Next
    PROVE  CallersWatched'
  <1>1. /\ job \in [C!Slots -> C!Job \cup {C!Idle}] /\ Registry /\ CallersWatched
        /\ Handlers \subseteq C!Slots /\ P!ConnectedIsOnline
    BY Parts DEF IInv, CP!IInv, CP!TypeOK, CP!Slots, C!Slots, CP!Job, C!Job, CP!Idle, C!Idle,
                 CP!Endings, C!Endings
  <1>2. ASSUME NEW h \in Handlers, (job[h].pc = "create")'
        PROVE  \/ job[h].pc = "create" /\ job'[h] = job[h]
               \/ UNCHANGED presenceVars /\ P!IsOnline(job'[h].caller) /\ job'[h].caller \in Users
    <2>1. CASE UNCHANGED job
      BY <1>2, <2>1
    <2>2. ASSUME NEW s \in C!Slots, NEW j, j.pc # "create", job' = [job EXCEPT ![s] = j]
          PROVE  job[h].pc = "create" /\ job'[h] = job[h]
      BY <1>1, <1>2, <2>2
    <2>3. ASSUME NEW g \in Handlers, NEW u \in Users, P!Connected(u), C!Request(g, u),
                 UNCHANGED presenceVars
          PROVE  \/ job[h].pc = "create" /\ job'[h] = job[h]
                 \/ UNCHANGED presenceVars /\ P!IsOnline(job'[h].caller) /\ job'[h].caller \in Users
      <3>1. P!IsOnline(u)
        BY <1>1, <2>3, RealtimeAssumption DEF P!Connected, P!IsOnline, P!ConnectedIsOnline
      <3>2. ASSUME NEW v \in Users, NEW c \in Ids, C!Invite(g, u, v, c)
            PROVE  (h = g => job'[h].caller = u) /\ (h # g => job'[h] = job[h])
        BY <1>1, <3>2 DEF C!Invite, C!Await
      <3>3. ASSUME NEW c \in Ids, C!Accept(g, u, c) \/ C!Reject(g, u, c) \/ C!Cancel(g, u, c) \/ C!End(g, u, c)
            PROVE  job[h].pc = "create" /\ job'[h] = job[h]
        BY <1>1, <2>2, <3>3 DEF C!Accept, C!Reject, C!Cancel, C!End, C!HangUp, C!Await, C!Finishing
      <3>4. QED
        BY <1>2, <2>3, <3>1, <3>2, <3>3 DEF C!Request
    <2>4. ASSUME NEW s \in C!Slots, C!Resume(s) PROVE job[h].pc = "create" /\ job'[h] = job[h]
      BY <2>2, <2>4 DEF C!Resume, C!Created, C!Recorded, C!InsertFails, C!Accepted, C!Finished,
                        C!TearDown, C!Await, C!Idle, C!Finishing
    <2>5. ASSUME NEW c \in Ids, C!RingFires(c) PROVE job[h].pc = "create" /\ job'[h] = job[h]
      BY <1>2, <2>2, <2>5 DEF C!RingFires, C!Await, C!Finishing, C!Slots
    <2>6. ASSUME NEW u \in Users, C!EndCallsFor(u) PROVE job[h].pc = "create" /\ job'[h] = job[h]
      BY <2>2, <2>6 DEF C!EndCallsFor, C!TearDown, C!Await, C!Idle, C!Finishing, C!Slots
    <2>7. QED
      BY <2>1, <2>3, <2>4, <2>5, <2>6
      DEF Next, Request, Resume, Created, C!Resume, RingFires, Come, Leave, Mirrored,
          GraceExpires, callVars
  <1>3. ASSUME NEW h \in Handlers, job[h].pc = "create", job'[h] = job[h]
        PROVE  Watched(job[h].caller)'
    <2>1. job[h].caller \in Users /\ Watched(job[h].caller)
      BY <1>1, <1>3 DEF CallersWatched, C!Job, C!Idle
    <2>2. QED
      BY <1>1, <1>3, <2>1, WatchedStays
      DEF Next, Request, Resume, Created, RingFires, GraceExpires, presenceVars
  <1>4. QED
    BY <1>2, <1>3 DEF CallersWatched, Watched, P!IsOnline, presenceVars

LEMMA Inductive == IInv /\ [Next]_vars => IInv'
  <1> SUFFICES ASSUME IInv, [Next]_vars PROVE IInv'
    OBVIOUS
  <1>1. P!TypeOK' /\ P!ConnectedIsOnline'
    BY PresenceStep, PresenceInductive DEF IInv
  <1>2. CP!IInv'
    BY CallsStep, CP!Inductive, CallsAssumption DEF IInv
  <1>3. (pushed \in [Ids -> BOOLEAN])'
    BY DEF IInv, Next, Request, Resume, Created, C!Created, RingFires, Come, Leave, Mirrored,
           GraceExpires, vars
  <1>4. CASE UNCHANGED vars
    BY <1>1, <1>2, <1>3, <1>4
    DEF vars, presenceVars, callVars, IInv, CallersWatched, BoundWatched, Bound, Watched,
        P!IsOnline, P!Leaving, C!InFlight, C!At, TearingDown
  <1>5. CASE Next
    <2>1. CallersWatched'
      BY <1>5, CallersStayWatched
    <2>2. ASSUME NEW c \in Ids, NEW u \in Users, Bound(c, u)'
          PROVE  Watched(u)' \/ Ending(u, c)'
      <3>1. Bound(c, u) \/ Watched(u)
        BY <1>5, <2>2, NewlyBound
      <3>2. Watched(u) \/ Ending(u, c)
        BY <3>1 DEF IInv, BoundWatched, Ending
      <3>3. Ending(u, c) => Ending(u, c)'
        BY <2>2, CallsStep, EndingStays DEF IInv, Bound
      <3>4. ASSUME Watched(u), GraceExpires(u), ~P!IsOnline(u) PROVE Ending(u, c)'
        <4>1. C!EndCallsFor(u) /\ Bound(c, u)
          BY <2>2, <3>4 DEF GraceExpires, C!EndCallsFor, Bound
        <4>2. QED
          BY <4>1, EveryCallIsTornDown
      <3>5. CASE Watched(u) /\ ~(GraceExpires(u) /\ ~P!IsOnline(u))
        <4>1. Registry
          BY Parts DEF IInv
        <4>2. \/ UNCHANGED presenceVars
              \/ \E s \in Sockets : Come(s) \/ Leave(s) \/ Mirrored(s)
              \/ \E v \in Users : P!GraceExpires(v) /\ (v = u => P!IsOnline(u))
          BY <1>5, <3>5 DEF Next, Request, Resume, Created, RingFires, GraceExpires
        <4>3. QED
          BY <3>5, <4>1, <4>2, WatchedStays
      <3>6. QED
        BY <3>2, <3>3, <3>4, <3>5
    <2>3. BoundWatched'
      BY <2>2 DEF BoundWatched, Ending
    <2>4. QED
      BY <1>1, <1>2, <1>3, <2>1, <2>3 DEF IInv
  <1>6. QED
    BY <1>4, <1>5

LEMMA Invariance == Spec => []IInv
  BY InitHolds, Inductive, PTL DEF Spec

\* Every variable of the gateway keeps its type.
THEOREM RealtimeTypeCorrect == Spec => []TypeOK
  <1>1. IInv => TypeOK
    BY DEF IInv, TypeOK, CP!IInv, CP!TypeOK, C!TypeOK, CP!Slots, C!Slots, CP!Job, C!Job,
           CP!Idle, C!Idle, CP!Endings, C!Endings, CP!Call, C!Call, CP!NoCall, C!NoCall,
           CP!LogStatus, C!LogStatus, CP!Terminal, C!Terminal
  <1>2. QED
    BY <1>1, Invariance, PTL

\* registerSocket and unregisterSocket keep every open connection registered,
\* however many a user has and in whatever order they come and go.
THEOREM OpenIsOnline == Spec => []ConnectedIsOnline
  <1>1. IInv => ConnectedIsOnline
    BY DEF IInv, ConnectedIsOnline
  <1>2. QED
    BY <1>1, Invariance, PTL

\* handleDisconnect and endCallsFor: no party of an answered call is gone without
\* the grace timer, or the teardown behind it, being on the way.
THEOREM NobodyTalksToTheGone == Spec => []AnsweredIsAttended
  <1>1. IInv => AnsweredIsAttended
    BY DEF IInv, AnsweredIsAttended, BoundWatched, Bound, Watched, C!Party
  <1>2. QED
    BY <1>1, Invariance, PTL

\* The gateway implements the calls service and presence: connections, timers and
\* requests drive them only as CallsService and RealtimeService allow.
THEOREM GatewayImplementsParts == Spec => C!Spec /\ P!Spec
  <1>1. Init => C!Init /\ P!Init
    BY DEF Init
  <1>2. [CP!Next]_(CP!vars) => [C!Next]_(C!vars)
    BY SameRequests, SameResumes, SameTimers
    DEF CP!Next, C!Next, CP!vars, C!vars, CP!Slots, C!Slots
  <1>3. QED
    BY <1>1, <1>2, CallsStep, PresenceStep, PTL DEF Spec, C!Spec, P!Spec

\* What is proved of the calls service holds as the gateway drives it: timers run
\* exactly while a call rings, every ending reaches the chat, and no late answer
\* or teardown brings a call back.
COROLLARY CallsInTheGateway ==
    Spec => []CP!RingCovered /\ []CP!EndedIsMirrored /\ CP!KeepsLifecycle
  <1>1. Init => CP!Init
    BY DEF Init, C!Init, CP!Init, C!NoCall, CP!NoCall, C!Idle, CP!Idle, C!Slots, CP!Slots
  <1>2. Spec => CP!Spec
    BY <1>1, CallsStep, PTL DEF Spec, CP!Spec
  <1>3. QED
    BY <1>2, CallsAssumption, CP!RingsAreTimed, CP!EndingsAreMirrored,
       CP!CallsImplementLifecycle, PTL
=============================================================================

---------------------------- MODULE CallsProofs ----------------------------
(***************************************************************************)
(* Proofs about Calls: the types, RingCovered and EndedIsMirrored, for any *)
(* number of users, calls and requests in flight.                          *)
(***************************************************************************)
EXTENDS Calls, TLAPS

(***************************************************************************)
(* The strengthening.  A ring timer is armed by the one insert that gives  *)
(* an id its row, so an id must be reserved by one insert only; a teardown *)
(* must work on rows that are there; and who found no call to end will not *)
(* find that it has come back.                                             *)
(***************************************************************************)
Inserting(s) == At(s, "create") \/ At(s, "record")

Reserved ==
    /\ \A s \in Slots : Inserting(s) => s \in Handlers /\ log[job[s].id] = "none"
    /\ \A s, t \in Slots : Inserting(s) /\ Inserting(t) /\ job[s].id = job[t].id => s = t

HasRow(c) == log[c] # "none"

Backed ==
    /\ \A c \in Ids : live[c] => HasRow(c)
    /\ \A s \in Slots : At(s, "accept") => HasRow(job[s].id)
    /\ \A s \in Slots : At(s, "finish") =>
          /\ HasRow(job[s].id)
          /\ \A c \in job[s].rest : HasRow(c)
          /\ live[job[s].id] => job[s].found

\* A ring timer ends its own call and no other.
OwnTimer ==
    \A c \in Ids : ~At(c, "accept") /\ (At(c, "finish") => job[c].id = c /\ job[c].rest = {})

IInv == TypeOK /\ RingCovered /\ EndedIsMirrored /\ Reserved /\ Backed /\ OwnTimer
-----------------------------------------------------------------------------
\* What a continuation is, by its pc.
LEMMA JobShape ==
    ASSUME NEW s \in Slots, job \in [Slots -> Job \cup {Idle}]
    PROVE  /\ Inserting(s) \/ At(s, "accept") =>
                job[s].id \in Ids /\ job[s].caller \in Users /\ job[s].callee \in Users
           /\ At(s, "finish") => /\ job[s].id \in Ids /\ job[s].rest \in SUBSET Ids
                                 /\ job[s].status \in Endings /\ job[s].found \in BOOLEAN
  <1>1. job[s] \in Job \cup {Idle}
    OBVIOUS
  <1>2. QED
    BY <1>1 DEF Job, Idle, Inserting, At

\* The continuations of a teardown are well formed.
LEMMA FinishingType ==
    ASSUME NEW c \in Ids, NEW st \in Endings, NEW rest \in SUBSET Ids, live \in [Ids -> BOOLEAN]
    PROVE  Finishing(c, st, rest) \in Job
  <1>1. live[c] \in BOOLEAN
    OBVIOUS
  <1>2. QED
    BY <1>1 DEF Finishing, Job

LEMMA InitHolds == Init => IInv
  <1> SUFFICES ASSUME Init PROVE IInv
    OBVIOUS
  <1>1. \A s \in Slots : job[s] = Idle
    BY DEF Init
  <1>2. Ids \subseteq Slots
    BY DEF Slots
  <1>3. TypeOK
    BY DEF Init, TypeOK, LogStatus
  <1>4. RingCovered /\ EndedIsMirrored
    BY DEF Init, RingCovered, EndedIsMirrored
  <1>5. Reserved /\ Backed /\ OwnTimer
    BY <1>1, <1>2 DEF Init, Reserved, Backed, OwnTimer, HasRow, Inserting, At, Idle
  <1>6. QED
    BY <1>3, <1>4, <1>5 DEF IInv
-----------------------------------------------------------------------------
(***************************************************************************)
(* One lemma per action, one step per conjunct.                            *)
(***************************************************************************)
LEMMA InviteStep ==
    ASSUME NEW h \in Handlers, NEW u \in Users, NEW v \in Users, NEW c \in Ids,
           IInv, Invite(h, u, v, c)
    PROVE  IInv'
  <1> DEFINE j == [pc |-> IF IsBusy(v) THEN "record" ELSE "create",
                   id |-> c, caller |-> u, callee |-> v]
  <1>1. /\ h \in Slots /\ job' = [job EXCEPT ![h] = j] /\ job \in [Slots -> Job \cup {Idle}]
        /\ At(h, "idle") /\ Fresh(c)
        /\ UNCHANGED <<call, live, ring, log, mirrored>>
    BY DEF Invite, Await, IInv, TypeOK, Slots
  <1>2. j \in Job /\ j.pc \in {"record", "create"} /\ j.id = c
    BY DEF Job
  <1> HIDE DEF j
  <1>3. job'[h] = j /\ \A s \in Slots : s # h => job'[s] = job[s]
    BY <1>1
  <1>4. TypeOK'
    BY <1>1, <1>2 DEF IInv, TypeOK
  <1>5. RingCovered'
    BY <1>1, <1>2, <1>3 DEF IInv, RingCovered, InFlight, At
  <1>6. EndedIsMirrored'
    BY <1>1 DEF IInv, EndedIsMirrored
  <1>7. Reserved'
    BY <1>1, <1>2, <1>3 DEF IInv, Reserved, Inserting, At, Fresh
  <1>8. Backed'
    BY <1>1, <1>2, <1>3 DEF IInv, Backed, HasRow, At
  <1>9. OwnTimer'
    BY <1>1, <1>2, <1>3 DEF IInv, OwnTimer, At, Slots
  <1>10. QED
    BY <1>4, <1>5, <1>6, <1>7, <1>8, <1>9 DEF IInv

LEMMA CreatedStep ==
    ASSUME NEW h \in Slots, IInv, Created(h)
    PROVE  IInv'
  <1> DEFINE c == job[h].id
             new == [caller |-> job[h].caller, callee |-> job[h].callee, status |-> "ringing"]
  <1>1. /\ job \in [Slots -> Job \cup {Idle}] /\ At(h, "create")
        /\ job' = [job EXCEPT ![h] = Idle]
        /\ log' = [log EXCEPT ![c] = "ringing"] /\ call' = [call EXCEPT ![c] = new]
        /\ live' = [live EXCEPT ![c] = TRUE] /\ ring' = [ring EXCEPT ![c] = TRUE]
        /\ UNCHANGED mirrored
    BY DEF Created, Await, IInv, TypeOK
  <1>2. c \in Ids /\ new \in Call /\ new.status = "ringing"
    BY <1>1, JobShape DEF Inserting, Call
  <1>3. log[c] = "none" /\ ~live[c]
    BY <1>1, <1>2 DEF IInv, Reserved, Backed, Inserting, HasRow
  <1>4. \A s \in Slots : (At(s, "finish") => job[s].id # c) /\ (Inserting(s) /\ s # h => job[s].id # c)
    BY <1>1, <1>3 DEF IInv, Reserved, Backed, Inserting, HasRow
  <1> HIDE DEF c, new
  <1>5. job'[h] = Idle /\ \A s \in Slots : s # h => job'[s] = job[s]
    BY <1>1
  <1>6. /\ log'[c] = "ringing" /\ call'[c] = new /\ live'[c] /\ ring'[c]
        /\ \A d \in Ids : d # c => /\ log'[d] = log[d] /\ call'[d] = call[d]
                                  /\ live'[d] = live[d] /\ ring'[d] = ring[d]
    BY <1>1, <1>2 DEF IInv, TypeOK
  <1>7. TypeOK'
    BY <1>1, <1>2 DEF IInv, TypeOK, LogStatus
  <1>8. RingCovered'
    <2>1. \A d \in Ids : d = c => ~InFlight(d)'
      BY <1>4, <1>5 DEF InFlight, At, Idle
    <2>2. \A d \in Ids : InFlight(d)' <=> InFlight(d)
      BY <1>1, <1>5 DEF InFlight, At, Idle
    <2>3. QED
      BY <1>2, <1>6, <2>1, <2>2 DEF IInv, RingCovered
  <1>9. EndedIsMirrored'
    BY <1>1, <1>6 DEF IInv, EndedIsMirrored
  <1>10. Reserved'
    BY <1>4, <1>5, <1>6, JobShape, <1>1 DEF IInv, Reserved, Inserting, At, Idle
  <1>11. Backed'
    BY <1>4, <1>5, <1>6, JobShape, <1>1 DEF IInv, Backed, HasRow, At, Idle
  <1>12. OwnTimer'
    BY <1>5 DEF IInv, OwnTimer, At, Idle, Slots
  <1>13. QED
    BY <1>7, <1>8, <1>9, <1>10, <1>11, <1>12 DEF IInv

LEMMA RecordedStep ==
    ASSUME NEW h \in Slots, IInv, Recorded(h)
    PROVE  IInv'
  <1> DEFINE c == job[h].id
  <1>1. /\ job \in [Slots -> Job \cup {Idle}] /\ At(h, "record")
        /\ job' = [job EXCEPT ![h] = Idle]
        /\ log' = [log EXCEPT ![c] = "busy"] /\ mirrored' = [mirrored EXCEPT ![c] = @ + 1]
        /\ UNCHANGED <<call, live, ring>>
    BY DEF Recorded, Await, IInv, TypeOK
  <1>2. c \in Ids
    BY <1>1, JobShape DEF Inserting
  <1>3. log[c] = "none" /\ ~live[c]
    BY <1>1, <1>2 DEF IInv, Reserved, Backed, Inserting, HasRow
  <1>4. \A s \in Slots : Inserting(s) /\ s # h => job[s].id # c
    BY <1>1 DEF IInv, Reserved, Inserting
  <1> HIDE DEF c
  <1>5. job'[h] = Idle /\ \A s \in Slots : s # h => job'[s] = job[s]
    BY <1>1
  <1>6. /\ log'[c] = "busy" /\ mirrored'[c] = mirrored[c] + 1
        /\ \A d \in Ids : d # c => log'[d] = log[d] /\ mirrored'[d] = mirrored[d]
    BY <1>1, <1>2 DEF IInv, TypeOK
  <1>7. TypeOK'
    BY <1>1, <1>2, <1>6 DEF IInv, TypeOK, LogStatus, Terminal
  <1>8. RingCovered'
    BY <1>1, <1>5 DEF IInv, RingCovered, InFlight, At, Idle
  <1>9. EndedIsMirrored'
    <2>1. mirrored[c] \in Nat
      BY <1>2 DEF IInv, TypeOK
    <2>2. QED
      BY <1>1, <1>2, <1>6, <2>1 DEF IInv, EndedIsMirrored
  <1>10. Reserved'
    BY <1>4, <1>5, <1>6, JobShape, <1>1 DEF IInv, Reserved, Inserting, At, Idle
  <1>11. Backed'
    BY <1>5, <1>6, JobShape, <1>1 DEF IInv, Backed, HasRow, At, Idle
  <1>12. OwnTimer'
    BY <1>5 DEF IInv, OwnTimer, At, Idle, Slots
  <1>13. QED
    BY <1>7, <1>8, <1>9, <1>10, <1>11, <1>12 DEF IInv

LEMMA InsertFailsStep ==
    ASSUME NEW h \in Slots, IInv, InsertFails(h)
    PROVE  IInv'
  <1>1. /\ job \in [Slots -> Job \cup {Idle}] /\ Inserting(h)
        /\ job' = [job EXCEPT ![h] = Idle] /\ UNCHANGED <<call, live, ring, log, mirrored>>
    BY DEF InsertFails, Await, IInv, TypeOK, Inserting
  <1>2. job'[h] = Idle /\ \A s \in Slots : s # h => job'[s] = job[s]
    BY <1>1
  <1>3. TypeOK'
    BY <1>1 DEF IInv, TypeOK
  <1>4. RingCovered' /\ EndedIsMirrored'
    BY <1>1, <1>2 DEF IInv, RingCovered, EndedIsMirrored, InFlight, Inserting, At, Idle
  <1>5. Reserved'
    BY <1>1, <1>2 DEF IInv, Reserved, Inserting, At, Idle
  <1>6. Backed' /\ OwnTimer'
    BY <1>1, <1>2 DEF IInv, Backed, OwnTimer, HasRow, At, Idle, Slots
  <1>7. QED
    BY <1>3, <1>4, <1>5, <1>6 DEF IInv

LEMMA AcceptStep ==
    ASSUME NEW h \in Handlers, NEW u \in Users, NEW c \in Ids, IInv, Accept(h, u, c)
    PROVE  IInv'
  <1> DEFINE j == [pc |-> "accept", id |-> c, caller |-> call[c].caller, callee |-> u]
  <1>1. /\ h \in Slots /\ job \in [Slots -> Job \cup {Idle}] /\ At(h, "idle")
        /\ live[c] /\ call[c].callee = u /\ log[c] # "none"
        /\ job' = [job EXCEPT ![h] = j] /\ ring' = [ring EXCEPT ![c] = FALSE]
        /\ call' = [call EXCEPT ![c].status = "accepted"] /\ UNCHANGED <<live, log, mirrored>>
    BY DEF Accept, Await, ClearRing, IInv, TypeOK, Slots, Backed, HasRow
  <1>2. call[c].caller \in Users /\ call'[c] \in Call /\ call'[c].status = "accepted"
    <2>1. call[c] \in Call \cup {NoCall}
      BY DEF IInv, TypeOK
    <2>2. call[c].caller \in Users
      BY <1>1, <2>1 DEF Call, NoCall
    <2>3. call'[c] = [call[c] EXCEPT !.status = "accepted"]
      BY <1>1 DEF IInv, TypeOK
    <2>4. QED
      BY <1>1, <2>1, <2>2, <2>3 DEF Call, NoCall
  <1>3. j \in Job /\ j.pc = "accept" /\ j.id = c
    BY <1>2 DEF Job
  <1> HIDE DEF j
  <1>4. job'[h] = j /\ \A s \in Slots : s # h => job'[s] = job[s]
    BY <1>1
  <1>5. ~ring'[c] /\ \A d \in Ids : d # c => ring'[d] = ring[d] /\ call'[d] = call[d]
    BY <1>1 DEF IInv, TypeOK
  <1>6. TypeOK'
    <2>1. call' \in [Ids -> Call \cup {NoCall}]
      <3>1. call' = [call EXCEPT ![c] = call'[c]]
        BY <1>1 DEF IInv, TypeOK
      <3>2. QED
        BY <1>2, <3>1 DEF IInv, TypeOK
    <2>2. QED
      BY <1>1, <1>3, <2>1 DEF IInv, TypeOK
  <1>7. RingCovered'
    BY <1>1, <1>2, <1>3, <1>4, <1>5 DEF IInv, RingCovered, InFlight, At
  <1>8. EndedIsMirrored' /\ OwnTimer'
    BY <1>1, <1>3, <1>4, ConstantsAssumption DEF IInv, EndedIsMirrored, OwnTimer, At, Slots
  <1>9. Reserved' /\ Backed'
    BY <1>1, <1>3, <1>4 DEF IInv, Reserved, Backed, Inserting, HasRow, At
  <1>10. QED
    BY <1>6, <1>7, <1>8, <1>9 DEF IInv

LEMMA AcceptedStep ==
    ASSUME NEW h \in Slots, IInv, Accepted(h)
    PROVE  IInv'
  <1> DEFINE c == job[h].id
  <1>1. /\ job \in [Slots -> Job \cup {Idle}] /\ At(h, "accept")
        /\ job' = [job EXCEPT ![h] = Idle] /\ Writes(c, "accepted")
        /\ UNCHANGED <<call, live, ring, mirrored>>
    BY DEF Accepted, Await, IInv, TypeOK
  <1>2. c \in Ids /\ log[c] # "none"
    BY <1>1, JobShape DEF IInv, Backed, HasRow
  <1> HIDE DEF c
  <1>3. job'[h] = Idle /\ \A s \in Slots : s # h => job'[s] = job[s]
    BY <1>1
  <1>4. /\ log' \in [Ids -> LogStatus]
        /\ \A d \in Ids : log'[d] = "none" <=> log[d] = "none"
    BY <1>1, <1>2 DEF IInv, TypeOK, Writes, LogStatus
  <1>5. TypeOK'
    BY <1>1, <1>4 DEF IInv, TypeOK
  <1>6. RingCovered' /\ EndedIsMirrored'
    BY <1>1, <1>3, <1>4 DEF IInv, RingCovered, EndedIsMirrored, InFlight, At, Idle
  <1>7. Reserved'
    BY <1>1, <1>3, <1>4, JobShape DEF IInv, Reserved, Inserting, At, Idle
  <1>8. Backed' /\ OwnTimer'
    BY <1>1, <1>3, <1>4, JobShape DEF IInv, Backed, OwnTimer, HasRow, At, Idle, Slots
  <1>9. QED
    BY <1>5, <1>6, <1>7, <1>8 DEF IInv

\* A slot that waited for nothing starts to end a call that is live.
LEMMA BeginsToEnd ==
    ASSUME NEW s \in Slots, NEW c \in Ids, NEW st \in Endings, NEW rest \in SUBSET Ids,
           IInv, At(s, "idle"), live[c], \A d \in rest : live[d],
           s \in Ids => s = c /\ rest = {},
           ClearRing(c), Await(s, Finishing(c, st, rest)), UNCHANGED <<call, live, log, mirrored>>
    PROVE  IInv'
  <1> DEFINE j == Finishing(c, st, rest)
  <1>1. /\ job \in [Slots -> Job \cup {Idle}] /\ job' = [job EXCEPT ![s] = j]
        /\ ring' = [ring EXCEPT ![c] = FALSE] /\ UNCHANGED <<call, live, log, mirrored>>
    BY DEF Await, ClearRing, IInv, TypeOK
  <1>2. j \in Job
    BY FinishingType DEF IInv, TypeOK
  <1>3. j.pc = "finish" /\ j.id = c /\ j.rest = rest /\ j.found = live[c]
    BY DEF Finishing
  <1> HIDE DEF j
  <1>4. job'[s] = j /\ \A t \in Slots : t # s => job'[t] = job[t]
    BY <1>1
  <1>5. ~ring'[c] /\ \A d \in Ids : d # c => ring'[d] = ring[d]
    BY <1>1 DEF IInv, TypeOK
  <1>6. TypeOK'
    BY <1>1, <1>2 DEF IInv, TypeOK
  <1>7. RingCovered'
    BY <1>1, <1>3, <1>4, <1>5 DEF IInv, RingCovered, InFlight, At
  <1>8. EndedIsMirrored' /\ OwnTimer'
    BY <1>1, <1>3, <1>4 DEF IInv, EndedIsMirrored, OwnTimer, At, Slots
  <1>9. Reserved'
    BY <1>1, <1>3, <1>4 DEF IInv, Reserved, Inserting, At
  <1>10. Backed'
    BY <1>1, <1>3, <1>4 DEF IInv, Backed, HasRow, At
  <1>11. QED
    BY <1>6, <1>7, <1>8, <1>9, <1>10 DEF IInv

LEMMA HangUpStep ==
    ASSUME NEW h \in Handlers, NEW c \in Ids, NEW st \in Endings, IInv, HangUp(h, c, st)
    PROVE  IInv'
  <1>1. h \in Slots /\ h \notin Ids
    BY ConstantsAssumption DEF Slots
  <1>2. QED
    BY <1>1, BeginsToEnd DEF HangUp

LEMMA RingFiresStep ==
    ASSUME NEW c \in Ids, IInv, RingFires(c)
    PROVE  IInv'
  <1>1. live[c] /\ call[c].status = "ringing" /\ ~InFlight(c)
    BY DEF RingFires, IInv, RingCovered
  <1>2. c \in Slots /\ At(c, "idle")
    <2>1. c \in Slots /\ job[c] \in Job \cup {Idle}
      BY DEF IInv, TypeOK, Slots
    <2>2. ~At(c, "finish")
      BY <1>1, <2>1 DEF IInv, OwnTimer, InFlight
    <2>3. ~At(c, "create") /\ ~At(c, "record") /\ ~At(c, "accept")
      BY <2>1, ConstantsAssumption DEF IInv, Reserved, OwnTimer, Inserting
    <2>4. QED
      BY <2>1, <2>2, <2>3 DEF Job, Idle, At
  <1>3. QED
    BY <1>1, <1>2, BeginsToEnd DEF RingFires, Endings

LEMMA EndCallsForStep ==
    ASSUME NEW u \in Users, IInv, EndCallsFor(u)
    PROVE  IInv'
  <1>1. u \in Slots /\ u \notin Ids /\ At(u, "idle")
    BY ConstantsAssumption DEF Slots, EndCallsFor
  <1>2. CASE ActiveFor(u) = {} /\ Await(u, Idle) /\ UNCHANGED ring
    <2>1. job[u] = Idle
      BY <1>1 DEF IInv, TypeOK, Job, Idle, At
    <2>2. UNCHANGED vars
      BY <1>2, <2>1, <1>1 DEF EndCallsFor, Await, vars, IInv, TypeOK
    <2>3. QED
      BY <2>2 DEF vars, IInv, TypeOK, RingCovered, EndedIsMirrored, Reserved, Backed, OwnTimer,
                  InFlight, HasRow, Inserting, At
  <1>3. CASE \E c \in ActiveFor(u) :
               /\ Await(u, Finishing(c, IF call[c].status = "accepted" THEN "ended" ELSE "missed",
                                     ActiveFor(u) \ {c}))
               /\ ClearRing(c)
    <2>1. PICK c \in ActiveFor(u) :
               /\ Await(u, Finishing(c, IF call[c].status = "accepted" THEN "ended" ELSE "missed",
                                     ActiveFor(u) \ {c}))
               /\ ClearRing(c)
      BY <1>3
    <2> DEFINE st == IF call[c].status = "accepted" THEN "ended" ELSE "missed"
               rest == ActiveFor(u) \ {c}
    <2>2. c \in Ids /\ live[c] /\ rest \in SUBSET Ids /\ \A d \in rest : live[d]
      BY DEF ActiveFor
    <2>3. st \in Endings
      BY DEF Endings
    <2>4. Await(u, Finishing(c, st, rest)) /\ ClearRing(c) /\ UNCHANGED <<call, live, log, mirrored>>
      BY <2>1 DEF EndCallsFor
    <2> HIDE DEF st, rest
    <2>5. QED
      BY <1>1, <2>2, <2>3, <2>4, BeginsToEnd
  <1>4. QED
    BY <1>2, <1>3 DEF EndCallsFor, TearDown

\* The write of finish lands: the call is over, its slot free or on to the next.
LEMMA FinishedStep ==
    ASSUME NEW s \in Slots, IInv, Finished(s)
    PROVE  IInv'
  <1> DEFINE c == job[s].id
  <1>1. /\ job \in [Slots -> Job \cup {Idle}] /\ At(s, "finish") /\ Writes(c, job[s].status)
        /\ mirrored' = IF job[s].found THEN [mirrored EXCEPT ![c] = @ + 1] ELSE mirrored
        /\ live' = [live EXCEPT ![c] = FALSE] /\ TearDown(s, job[s].rest) /\ UNCHANGED call
    BY DEF Finished, IInv, TypeOK
  <1>2. /\ c \in Ids /\ job[s].rest \in SUBSET Ids /\ job[s].status \in Endings
        /\ HasRow(c) /\ (\A d \in job[s].rest : HasRow(d)) /\ (live[c] => job[s].found)
    BY <1>1, JobShape DEF IInv, Backed
  <1>3. s \in Ids => job[s].rest = {}
    BY <1>1 DEF IInv, OwnTimer
  <1> HIDE DEF c
  <1>4. /\ log' \in [Ids -> LogStatus]
        /\ \A d \in Ids : HasRow(d)' <=> HasRow(d)
    BY <1>1, <1>2 DEF IInv, TypeOK, Writes, LogStatus, Terminal, Endings, HasRow
  <1>5. ~live'[c] /\ \A d \in Ids : d # c => live'[d] = live[d]
    BY <1>1, <1>2 DEF IInv, TypeOK
  <1>6. /\ mirrored' \in [Ids -> Nat] /\ \A d \in Ids : mirrored[d] > 0 => mirrored'[d] > 0
        /\ live[c] => mirrored'[c] > 0
    <2>1. mirrored \in [Ids -> Nat]
      BY DEF IInv, TypeOK
    <2>2. QED
      BY <1>1, <1>2, <2>1
  <1>7. EndedIsMirrored'
    BY <1>1, <1>2, <1>4, <1>5, <1>6 DEF IInv, EndedIsMirrored, HasRow
  <1>8. CASE job' = [job EXCEPT ![s] = Idle] /\ UNCHANGED ring
    <2>1. job'[s] = Idle /\ \A t \in Slots : t # s => job'[t] = job[t]
      BY <1>1, <1>8
    <2>2. TypeOK'
      BY <1>1, <1>2, <1>4, <1>6, <1>8 DEF IInv, TypeOK
    <2>3. RingCovered'
      <3>1. \A d \in Ids : d # c => (InFlight(d)' <=> InFlight(d))
        BY <1>1, <2>1 DEF InFlight, At, Idle, c
      <3>2. ~ring[c]
        BY <1>1, <1>2 DEF IInv, RingCovered, InFlight, c
      <3>3. QED
        BY <1>1, <1>5, <1>8, <3>1, <3>2 DEF IInv, RingCovered
    <2>4. Reserved'
      BY <1>1, <1>4, <2>1, JobShape DEF IInv, Reserved, Inserting, HasRow, At, Idle
    <2>5. Backed'
      <3>1. \A d \in Ids : live'[d] => HasRow(d)'
        BY <1>4, <1>5 DEF IInv, Backed
      <3>2. \A t \in Slots : At(t, "accept")' => HasRow(job[t].id)' /\ job'[t] = job[t]
        BY <1>1, <1>4, <2>1, JobShape DEF IInv, Backed, At, Idle
      <3>3. \A t \in Slots : At(t, "finish")' =>
               /\ job'[t] = job[t] /\ HasRow(job[t].id)' /\ \A d \in job[t].rest : HasRow(d)'
               /\ live'[job[t].id] => job[t].found
        BY <1>1, <1>4, <1>5, <2>1, JobShape DEF IInv, Backed, At, Idle
      <3>4. QED
        BY <3>1, <3>2, <3>3 DEF Backed, HasRow
    <2>6. OwnTimer'
      BY <2>1 DEF IInv, OwnTimer, At, Idle, Slots
    <2>7. QED
      BY <1>7, <2>2, <2>3, <2>4, <2>5, <2>6 DEF IInv
  <1>9. CASE \E d \in job[s].rest :
               /\ Await(s, Finishing(d, IF call[d].status = "accepted" THEN "ended" ELSE "missed",
                                     job[s].rest \ {d}))
               /\ ClearRing(d)
    <2>1. PICK d \in job[s].rest :
               /\ Await(s, Finishing(d, IF call[d].status = "accepted" THEN "ended" ELSE "missed",
                                     job[s].rest \ {d}))
               /\ ClearRing(d)
      BY <1>9
    <2> DEFINE st == IF call[d].status = "accepted" THEN "ended" ELSE "missed"
               rest == job[s].rest \ {d}
               j == Finishing(d, st, rest)
    <2>2. /\ d \in Ids /\ HasRow(d) /\ s \notin Ids /\ rest \in SUBSET Ids
          /\ \A e \in rest : HasRow(e)
      BY <1>2, <1>3
    <2>3. st \in Endings
      BY DEF Endings
    <2>4. job' = [job EXCEPT ![s] = j] /\ ring' = [ring EXCEPT ![d] = FALSE]
      BY <2>1 DEF Await, ClearRing
    <2>5. j.pc = "finish" /\ j.id = d /\ j.rest = rest /\ j.found = live[d]
      BY DEF Finishing
    <2> HIDE DEF st, rest
    <2>6. j \in Job
      BY <2>2, <2>3, FinishingType DEF IInv, TypeOK
    <2> HIDE DEF j
    <2>7. job'[s] = j /\ \A t \in Slots : t # s => job'[t] = job[t]
      BY <1>1, <2>4
    <2>8. ~ring'[d] /\ \A e \in Ids : e # d => ring'[e] = ring[e]
      BY <2>2, <2>4 DEF IInv, TypeOK
    <2>9. TypeOK'
      <3>1. job' \in [Slots -> Job \cup {Idle}]
        BY <1>1, <2>4, <2>6
      <3>2. ring' \in [Ids -> BOOLEAN] /\ live' \in [Ids -> BOOLEAN]
        BY <1>1, <2>4 DEF IInv, TypeOK
      <3>3. QED
        BY <1>1, <1>4, <1>6, <3>1, <3>2 DEF IInv, TypeOK
    <2>10. RingCovered'
      <3>1. \A e \in Ids : e # c /\ e # d => (InFlight(e)' <=> InFlight(e))
        BY <1>1, <2>5, <2>7 DEF InFlight, At, c
      <3>2. InFlight(d)'
        BY <2>5, <2>7 DEF InFlight, At
      <3>3. ~ring[c]
        BY <1>1, <1>2 DEF IInv, RingCovered, InFlight, c
      <3>4. QED
        BY <1>1, <1>5, <2>8, <3>1, <3>2, <3>3 DEF IInv, RingCovered
    <2>11. Reserved'
      BY <1>1, <1>4, <2>5, <2>7, JobShape DEF IInv, Reserved, Inserting, HasRow, At
    <2>12. Backed'
      <3>1. \A e \in Ids : live'[e] => HasRow(e)'
        BY <1>4, <1>5 DEF IInv, Backed
      <3>2. \A t \in Slots : At(t, "accept")' => HasRow(job[t].id)' /\ job'[t] = job[t]
        BY <1>1, <1>4, <2>5, <2>7, JobShape DEF IInv, Backed, At
      <3>3. \A t \in Slots : t # s /\ At(t, "finish")' =>
               /\ job'[t] = job[t] /\ HasRow(job[t].id)' /\ \A e \in job[t].rest : HasRow(e)'
               /\ live'[job[t].id] => job[t].found
        BY <1>1, <1>4, <1>5, <2>7, JobShape DEF IInv, Backed, At
      <3>4. log'[d] # "none" /\ (\A e \in rest : log'[e] # "none") /\ (live'[d] => live[d])
        BY <1>4, <1>5, <2>2 DEF HasRow
      <3>5. /\ job'[s].pc # "accept" /\ log'[job'[s].id] # "none"
            /\ \A e \in job'[s].rest : log'[e] # "none"
            /\ live'[job'[s].id] => job'[s].found
        BY <2>5, <2>7, <3>4 DEF At, HasRow
      <3>6. \A t \in Slots : At(t, "accept")' => HasRow(job[t].id)'
        BY <3>2, <3>5 DEF HasRow, At
      <3>7. \A t \in Slots : At(t, "finish")' =>
               /\ HasRow(job[t].id)' /\ \A e \in job'[t].rest : log'[e] # "none"
               /\ live'[job'[t].id] => job'[t].found
        <4> SUFFICES ASSUME NEW t \in Slots, At(t, "finish")'
                     PROVE  /\ HasRow(job[t].id)' /\ \A e \in job'[t].rest : log'[e] # "none"
                            /\ live'[job'[t].id] => job'[t].found
          OBVIOUS
        <4>1. CASE t = s
          BY <4>1, <3>5 DEF HasRow
        <4>2. CASE t # s
          BY <4>2, <3>3 DEF HasRow
        <4>3. QED
          BY <4>1, <4>2
      <3>8. QED
        BY <3>1, <3>6, <3>7 DEF Backed, HasRow
    <2>13. OwnTimer'
      BY <2>2, <2>7 DEF IInv, OwnTimer, At, Slots
    <2>14. QED
      BY <1>7, <2>9, <2>10, <2>11, <2>12, <2>13 DEF IInv
  <1>10. QED
    BY <1>1, <1>8, <1>9 DEF TearDown, Await
-----------------------------------------------------------------------------
LEMMA Inductive == IInv /\ [Next]_vars => IInv'
  <1> SUFFICES ASSUME IInv, [Next]_vars PROVE IInv'
    OBVIOUS
  <1>1. ASSUME NEW h \in Handlers, NEW u \in Users, Request(h, u) PROVE IInv'
    <2>1. "rejected" \in Endings /\ "cancelled" \in Endings /\ "ended" \in Endings
      BY DEF Endings
    <2>2. QED
      BY <1>1, <2>1, InviteStep, AcceptStep, HangUpStep DEF Request, Reject, Cancel, End
  <1>2. ASSUME NEW s \in Slots, Resume(s) PROVE IInv'
    BY <1>2, CreatedStep, RecordedStep, InsertFailsStep, AcceptedStep, FinishedStep DEF Resume
  <1>3. ASSUME NEW c \in Ids, RingFires(c) PROVE IInv'
    BY <1>3, RingFiresStep
  <1>4. ASSUME NEW u \in Users, EndCallsFor(u) PROVE IInv'
    BY <1>4, EndCallsForStep
  <1>5. CASE UNCHANGED vars
    BY <1>5 DEF vars, IInv, TypeOK, RingCovered, EndedIsMirrored, Reserved, Backed, OwnTimer,
                InFlight, HasRow, Inserting, At
  <1>6. QED
    BY <1>1, <1>2, <1>3, <1>4, <1>5 DEF Next

LEMMA Invariance == Spec => []IInv
  BY InitHolds, Inductive, PTL DEF Spec

\* Every variable of Calls keeps its type.
THEOREM CallsTypeCorrect == Spec => []TypeOK
  <1>1. IInv => TypeOK
    BY DEF IInv
  <1>2. QED
    BY <1>1, Invariance, PTL

\* The ring timer (onCallInvite, clearRing) is armed exactly while a call rings
\* that nobody is ending.
THEOREM RingsAreTimed == Spec => []RingCovered
  <1>1. IInv => RingCovered
    BY DEF IInv
  <1>2. QED
    BY <1>1, Invariance, PTL

\* Every terminal path of a call hands it to the chat (mirrorToChat).
THEOREM EndingsAreMirrored == Spec => []EndedIsMirrored
  <1>1. IInv => EndedIsMirrored
    BY DEF IInv
  <1>2. QED
    BY <1>1, Invariance, PTL
-----------------------------------------------------------------------------
(***************************************************************************)
(* The refinement: what one step of the service does to the phase of one   *)
(* call is a step of CallLifecycle or nothing.                             *)
(***************************************************************************)
Moves(c) == LET p == Phase(c) IN
    \/ p' = p
    \/ p = "none" /\ p' \in {"ringing", "over"}
    \/ p = "ringing" /\ p' \in {"answered", "over"}
    \/ p = "answered" /\ p' = "over"

LEMMA MovesAreSteps == \A c \in Ids : Moves(c) => [Lifecycle(c)!Next]_(Phase(c))
  BY DEF Moves, Lifecycle!Next, Lifecycle!Ring, Lifecycle!TurnAway, Lifecycle!Answer, Lifecycle!HangUp

\* Calls whose row, map entry and status stay as they are do not move.
LEMMA Still ==
    ASSUME NEW c \in Ids, live'[c] = live[c], call'[c].status = call[c].status,
           (log'[c] = "none") = (log[c] = "none")
    PROVE  Moves(c)
  BY DEF Moves, Phase

LEMMA EveryStepMoves ==
    ASSUME IInv, Next, NEW d \in Ids
    PROVE  Moves(d)
  <1> USE DEF HasRow
  <1>1. /\ live \in [Ids -> BOOLEAN] /\ log \in [Ids -> LogStatus]
        /\ job \in [Slots -> Job \cup {Idle}] /\ call \in [Ids -> Call \cup {NoCall}]
    BY DEF IInv, TypeOK
  <1>2. ASSUME NEW h \in Handlers, NEW u \in Users, NEW c \in Ids, Accept(h, u, c) PROVE Moves(d)
    <2>1. CASE d = c
      <3>1. live[d] /\ log[d] # "none" /\ call'[d].status = "accepted"
        BY <1>1, <1>2, <2>1 DEF Accept, IInv, Backed
      <3>2. live'[d] = live[d] /\ log'[d] = log[d]
        BY <1>2 DEF Accept
      <3>3. QED
        BY <3>1, <3>2 DEF Moves, Phase
    <2>2. CASE d # c
      <3>1. call'[d] = call[d] /\ live' = live /\ log' = log
        BY <1>1, <1>2, <2>2 DEF Accept
      <3>2. QED
        BY <3>1, Still
    <2>3. QED
      BY <2>1, <2>2
  <1>3. ASSUME NEW s \in Slots, Created(s) PROVE Moves(d)
    <2>1. job[s].id \in Ids /\ log[job[s].id] = "none" /\ ~live[job[s].id]
      BY <1>1, <1>3, JobShape DEF Created, Inserting, IInv, Reserved, Backed
    <2>2. CASE d = job[s].id
      <3>1. live'[d] /\ call'[d].status = "ringing"
        BY <1>1, <1>3, <2>1, <2>2 DEF Created
      <3>2. QED
        BY <2>1, <2>2, <3>1 DEF Moves, Phase
    <2>3. CASE d # job[s].id
      <3>1. call'[d] = call[d] /\ live'[d] = live[d] /\ log'[d] = log[d]
        BY <1>1, <1>3, <2>1, <2>3 DEF Created
      <3>2. QED
        BY <3>1, Still
    <2>4. QED
      BY <2>2, <2>3
  <1>4. ASSUME NEW s \in Slots, Recorded(s) PROVE Moves(d)
    <2>1. job[s].id \in Ids /\ log[job[s].id] = "none" /\ ~live[job[s].id]
      BY <1>1, <1>4, JobShape DEF Recorded, Inserting, IInv, Reserved, Backed
    <2>2. live' = live /\ call' = call /\ log' = [log EXCEPT ![job[s].id] = "busy"]
      BY <1>4 DEF Recorded
    <2>3. CASE d = job[s].id
      BY <1>1, <2>1, <2>2, <2>3 DEF Moves, Phase
    <2>4. CASE d # job[s].id
      BY <1>1, <2>1, <2>2, <2>4, Still
    <2>5. QED
      BY <2>3, <2>4
  <1>5. ASSUME NEW s \in Slots, Accepted(s) PROVE Moves(d)
    <2>1. job[s].id \in Ids /\ log[job[s].id] # "none"
      BY <1>1, <1>5, JobShape DEF Accepted, IInv, Backed
    <2>2. live' = live /\ call' = call /\ (log'[d] = "none" <=> log[d] = "none")
      BY <1>1, <1>5, <2>1 DEF Accepted, Writes
    <2>3. QED
      BY <2>2, Still
  <1>6. ASSUME NEW s \in Slots, Finished(s) PROVE Moves(d)
    <2>1. /\ job[s].id \in Ids /\ log[job[s].id] # "none" /\ job[s].status \in Endings
      BY <1>1, <1>6, JobShape DEF Finished, IInv, Backed
    <2>2. call' = call /\ live' = [live EXCEPT ![job[s].id] = FALSE]
      BY <1>6 DEF Finished
    <2>3. log'[d] = "none" <=> log[d] = "none"
      BY <1>1, <1>6, <2>1 DEF Finished, Writes, Endings
    <2>4. CASE d = job[s].id
      BY <1>1, <2>1, <2>2, <2>3, <2>4 DEF Moves, Phase
    <2>5. CASE d # job[s].id
      BY <1>1, <2>2, <2>3, <2>5, Still
    <2>6. QED
      BY <2>4, <2>5
  <1>7. ASSUME UNCHANGED <<call, live, log>> PROVE Moves(d)
    BY <1>7, Still
  <1>8. ASSUME NEW h \in Handlers, NEW u \in Users, Request(h, u) PROVE Moves(d)
    BY <1>2, <1>7, <1>8 DEF Request, Invite, Reject, Cancel, End, HangUp
  <1>9. ASSUME NEW s \in Slots, Resume(s) PROVE Moves(d)
    BY <1>3, <1>4, <1>5, <1>6, <1>7, <1>9 DEF Resume, InsertFails
  <1>10. ASSUME NEW c \in Ids, RingFires(c) PROVE Moves(d)
    BY <1>7, <1>10 DEF RingFires
  <1>11. ASSUME NEW u \in Users, EndCallsFor(u) PROVE Moves(d)
    BY <1>7, <1>11 DEF EndCallsFor
  <1>12. QED
    BY <1>8, <1>9, <1>10, <1>11 DEF Next

\* The calls service implements CallLifecycle for every call: a call that is over
\* stays over, whatever is still in flight about it.
THEOREM CallsImplementLifecycle == Spec => KeepsLifecycle
  <1>1. Init => \A c \in Ids : Lifecycle(c)!Init
    BY DEF Init, Phase, Lifecycle!Init
  <1>2. IInv /\ [Next]_vars => [\A c \in Ids : [Lifecycle(c)!Next]_(Phase(c))]_vars
    BY EveryStepMoves, MovesAreSteps
  <1>3. QED
    BY <1>1, <1>2, Invariance, PTL DEF Spec, KeepsLifecycle
=============================================================================

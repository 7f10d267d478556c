------------------------------- MODULE Calls -------------------------------
(***************************************************************************)
(* One-to-one calls: CallsService (the live map, the CallLog rows, the     *)
(* chat rows that mirror finished calls) and the call:* handlers, the ring *)
(* timer and the teardown of RealtimeGateway.                              *)
(*                                                                         *)
(* Node runs one callback at a time; a handler gives way where it awaits   *)
(* the CallLog write.  job[s] is the continuation of what slot s awaits: a *)
(* request in Handlers, the ring timer of a call in Ids, the teardown of a *)
(* user in Users.  The write lands in the step that resumes it, so writes  *)
(* in flight together land in any order.                                   *)
(***************************************************************************)
EXTENDS Naturals, FiniteSets

CONSTANTS
    Users,          \* user ids: admins ("me") and employees
    Ids,            \* call ids
    Handlers,       \* call requests the gateway may be serving at one time
    WritesFail      \* whether a CallLog write may be lost (".catch")

ASSUME ConstantsAssumption ==
    /\ Users \cap Ids = {} /\ Users \cap Handlers = {} /\ Ids \cap Handlers = {}
    /\ WritesFail \in BOOLEAN

VARIABLES
    call,           \* per id: who calls whom, and the status in memory
    live,           \* per id: the call is in the active map
    ring,           \* per id: its ring timer is armed
    log,            \* per id: the status of its CallLog row
    mirrored,       \* per id: how often it was handed to the chat
    job             \* per slot: the continuation of what it awaits

vars == <<call, live, ring, log, mirrored, job>>
-----------------------------------------------------------------------------
Slots == Handlers \cup Ids \cup Users
Endings == {"rejected", "cancelled", "ended", "missed"}
Terminal == Endings \cup {"busy"}
LogStatus == {"none", "ringing", "accepted"} \cup Terminal

Call == [caller : Users, callee : Users, status : {"ringing", "accepted"}]
NoCall == [caller |-> "nobody", callee |-> "nobody", status |-> "ringing"]

Idle == [pc |-> "idle"]
Job == [pc : {"create", "record", "accept"}, id : Ids, caller : Users, callee : Users]
       \cup [pc : {"finish"}, id : Ids, status : Endings, found : BOOLEAN, rest : SUBSET Ids]

TypeOK ==
    /\ call \in [Ids -> Call \cup {NoCall}]
    /\ live \in [Ids -> BOOLEAN]
    /\ ring \in [Ids -> BOOLEAN]
    /\ log \in [Ids -> LogStatus]
    /\ mirrored \in [Ids -> Nat]
    /\ job \in [Slots -> Job \cup {Idle}]

Init ==
    /\ call = [c \in Ids |-> NoCall]
    /\ live = [c \in Ids |-> FALSE]
    /\ ring = [c \in Ids |-> FALSE]
    /\ log = [c \in Ids |-> "none"]
    /\ mirrored = [c \in Ids |-> 0]
    /\ job = [s \in Slots |-> Idle]
-----------------------------------------------------------------------------
(***************************************************************************)
(* A definition whose name ends in Bug is a plausible mistake in the one   *)
(* after it; PROJECT.json says which property finds it.                    *)
(***************************************************************************)
Party(c, u) == call[c].caller = u \/ call[c].callee = u
ActiveForBug(u) == {c \in Ids : live[c] /\ call[c].caller = u}      \* forgets the callee
ActiveFor(u) == {c \in Ids : live[c] /\ Party(c, u)}
IsBusy(u) == ActiveFor(u) # {}

At(s, pc) == job[s].pc = pc
Await(s, j) == job' = [job EXCEPT ![s] = j]

\* The row a slot writes when it resumes, unless the write is lost.
Writes(c, status) ==
    \/ log' = [log EXCEPT ![c] = status]
    \/ WritesFail /\ UNCHANGED log

\* An id the database has not given out.
Fresh(c) == log[c] = "none" /\ \A s \in Handlers : At(s, "create") \/ At(s, "record") => job[s].id # c

\* call:invite, up to the insert: busy or not is decided now.
Invite(h, u, v, c) ==
    /\ At(h, "idle") /\ Fresh(c)
    /\ Await(h, [pc |-> IF IsBusy(v) THEN "record" ELSE "create",
                 id |-> c, caller |-> u, callee |-> v])
    /\ UNCHANGED <<call, live, ring, log, mirrored>>

CreatedBug(h) ==                          \* arms no timer
    LET c == job[h].id IN
    /\ At(h, "create")
    /\ log' = [log EXCEPT ![c] = "ringing"]
    /\ call' = [call EXCEPT ![c] = [caller |-> job[h].caller, callee |-> job[h].callee,
                                    status |-> "ringing"]]
    /\ live' = [live EXCEPT ![c] = TRUE]
    /\ Await(h, Idle)
    /\ UNCHANGED <<ring, mirrored>>

\* createCall resumes: the call goes live and its ring timer is armed.
Created(h) ==
    LET c == job[h].id IN
    /\ At(h, "create")
    /\ log' = [log EXCEPT ![c] = "ringing"]
    /\ call' = [call EXCEPT ![c] = [caller |-> job[h].caller, callee |-> job[h].callee,
                                    status |-> "ringing"]]
    /\ live' = [live EXCEPT ![c] = TRUE]
    /\ ring' = [ring EXCEPT ![c] = TRUE]
    /\ Await(h, Idle)
    /\ UNCHANGED mirrored

\* record: a call to somebody busy is over before it starts.
Recorded(h) ==
    LET c == job[h].id IN
    /\ At(h, "record")
    /\ log' = [log EXCEPT ![c] = "busy"]
    /\ mirrored' = [mirrored EXCEPT ![c] = @ + 1]
    /\ Await(h, Idle)
    /\ UNCHANGED <<call, live, ring>>

\* An insert that fails throws out of the handler: no row, no call.
InsertFails(h) ==
    /\ WritesFail
    /\ At(h, "create") \/ At(h, "record")
    /\ Await(h, Idle)
    /\ UNCHANGED <<call, live, ring, log, mirrored>>

ClearRing(c) == ring' = [ring EXCEPT ![c] = FALSE]

AcceptBug(h, u, c) ==                     \* leaves the ring timer armed
    /\ At(h, "idle")
    /\ live[c] /\ call[c].callee = u
    /\ call' = [call EXCEPT ![c].status = "accepted"]
    /\ Await(h, [pc |-> "accept", id |-> c, caller |-> call[c].caller, callee |-> u])
    /\ UNCHANGED <<live, ring, log, mirrored>>

\* call:accept, by the callee of a live call, whatever its status.
Accept(h, u, c) ==
    /\ At(h, "idle")
    /\ live[c] /\ call[c].callee = u
    /\ ClearRing(c)
    /\ call' = [call EXCEPT ![c].status = "accepted"]
    /\ Await(h, [pc |-> "accept", id |-> c, caller |-> call[c].caller, callee |-> u])
    /\ UNCHANGED <<live, log, mirrored>>

AcceptedBug(h) ==                         \* puts the call back into the map
    /\ At(h, "accept")
    /\ Writes(job[h].id, "accepted")
    /\ live' = [live EXCEPT ![job[h].id] = TRUE]
    /\ Await(h, Idle)
    /\ UNCHANGED <<call, ring, mirrored>>

Accepted(h) ==
    /\ At(h, "accept")
    /\ Writes(job[h].id, "accepted")
    /\ Await(h, Idle)
    /\ UNCHANGED <<call, live, ring, mirrored>>

FinishingBug(c, status, rest) ==          \* mirrors answered calls only
    [pc |-> "finish", id |-> c, status |-> status,
     found |-> live[c] /\ call[c].status = "accepted", rest |-> rest]

\* finish, up to its write: whether the call is still live is looked up now.
Finishing(c, status, rest) ==
    [pc |-> "finish", id |-> c, status |-> status, found |-> live[c], rest |-> rest]

HangUp(h, c, status) ==
    /\ At(h, "idle") /\ live[c]
    /\ ClearRing(c)
    /\ Await(h, Finishing(c, status, {}))
    /\ UNCHANGED <<call, live, log, mirrored>>

Reject(h, u, c) == call[c].callee = u /\ HangUp(h, c, "rejected")
Cancel(h, u, c) == call[c].caller = u /\ HangUp(h, c, "cancelled")
End(h, u, c) == Party(c, u) /\ HangUp(h, c, "ended")

\* The ring timer: only a call that still rings is missed.
RingFires(c) ==
    /\ ring[c]
    /\ ClearRing(c)
    /\ IF live[c] /\ call[c].status = "ringing"
       THEN Await(c, Finishing(c, "missed", {})) ELSE UNCHANGED job
    /\ UNCHANGED <<call, live, log, mirrored>>

TearDownBug(u, rest) ==                   \* ends a call with the status it has
    \/ rest = {} /\ Await(u, Idle) /\ UNCHANGED ring
    \/ \E c \in rest :
          /\ Await(u, Finishing(c, call[c].status, rest \ {c}))
          /\ ClearRing(c)

\* endCallsFor goes on with one of the calls it listed, and clears its timer.
TearDown(u, rest) ==
    \/ rest = {} /\ Await(u, Idle) /\ UNCHANGED ring
    \/ \E c \in rest :
          /\ Await(u, Finishing(c, IF call[c].status = "accepted" THEN "ended" ELSE "missed",
                                rest \ {c}))
          /\ ClearRing(c)

\* A teardown is done before the next one of its user can begin (they are at
\* least DISCONNECT_GRACE_MS apart).
EndCallsFor(u) ==
    /\ At(u, "idle")
    /\ TearDown(u, ActiveFor(u))
    /\ UNCHANGED <<call, live, log, mirrored>>

\* finish resumes: the chat is told, if the call was live when it started; the
\* call leaves the map.  A teardown turns to its next call, which is read now.
Finished(s) ==
    LET j == job[s] IN
    /\ At(s, "finish")
    /\ Writes(j.id, j.status)
    /\ mirrored' = IF j.found THEN [mirrored EXCEPT ![j.id] = @ + 1] ELSE mirrored
    /\ live' = [live EXCEPT ![j.id] = FALSE]
    /\ TearDown(s, j.rest)
    /\ UNCHANGED call
-----------------------------------------------------------------------------
Request(h, u) ==
    \/ \E v \in Users, c \in Ids : Invite(h, u, v, c)
    \/ \E c \in Ids : Accept(h, u, c) \/ Reject(h, u, c) \/ Cancel(h, u, c) \/ End(h, u, c)

Resume(s) == Created(s) \/ Recorded(s) \/ InsertFails(s) \/ Accepted(s) \/ Finished(s)

Next ==
    \/ \E h \in Handlers, u \in Users : Request(h, u)
    \/ \E s \in Slots : Resume(s)
    \/ \E c \in Ids : RingFires(c)
    \/ \E u \in Users : EndCallsFor(u)

Spec == Init /\ [][Next]_vars

\* Every write that is awaited returns, every timer fires; nobody has to call,
\* to answer or to hang up.
Fairness ==
    /\ \A s \in Slots : WF_vars(Resume(s))
    /\ \A c \in Ids : WF_vars(RingFires(c))

FairSpec == Spec /\ Fairness
-----------------------------------------------------------------------------
(***************************************************************************)
(* What must hold however the handlers of both parties, the ring timer and *)
(* the teardowns interleave.                                               *)
(***************************************************************************)
InFlight(c) == \E s \in Slots : At(s, "finish") /\ job[s].id = c

\* The ring timer is armed exactly while a call rings that nobody is ending: no
\* call rings without an end in sight, no answered one is cut off as missed.
RingCovered ==
    \A c \in Ids : ring[c] <=> live[c] /\ call[c].status = "ringing" /\ ~InFlight(c)

\* "Every terminal path funnels through finish/record": a call that was there
\* and is over was handed to the chat (mirrorToChat), whatever became of the row there:
\* the chat keeps none of a call without the admin, and may fail to write it.
EndedIsMirrored == \A c \in Ids : log[c] # "none" /\ ~live[c] => mirrored[c] > 0

Phase(c) == IF live[c] THEN IF call[c].status = "ringing" THEN "ringing" ELSE "answered"
            ELSE IF log[c] = "none" THEN "none" ELSE "over"

Lifecycle(c) == INSTANCE CallLifecycle WITH phase <- Phase(c)

\* Every call keeps the promise of CallLifecycle: once it is over no late answer
\* or teardown brings it back ...
KeepsLifecycle ==
    /\ \A c \in Ids : Lifecycle(c)!Init
    /\ [][\A c \in Ids : [Lifecycle(c)!Next]_(Phase(c))]_vars

\* ... and it does not ring for ever, though nobody need answer or hang up.
StopsRinging == \A c \in Ids : Lifecycle(c)!StopsRinging
-----------------------------------------------------------------------------
(***************************************************************************)
(* What the repository says and the code does not keep.                    *)
(***************************************************************************)

\* "Only the first terminal transition is mirrored".
SingleMirror == \A c \in Ids : mirrored[c] <= 1

\* "call:end: status ended", "call:reject: status rejected", ...: when a call is
\* over and no write about it is in flight, its row says how it ended.
EndedIsLogged ==
    \A c \in Ids :
        log[c] # "none" /\ ~live[c] /\ (\A s \in Slots : job[s] # Idle => job[s].id # c)
        => log[c] \in Terminal

\* "If callee already in a call": nobody is called twice at the same time.
BusyCallee ==
    \A c, d \in Ids : live[c] /\ live[d] /\ call[c].callee = call[d].callee => c = d
=============================================================================

------------------------------ MODULE Realtime ------------------------------
(***************************************************************************)
(* RealtimeGateway as a whole: only a connected user sends call:* events,  *)
(* an invitation goes to the callee's sockets or, when they are offline,   *)
(* to their phone, and the grace timer of an offline user ends their calls.*)
(***************************************************************************)
EXTENDS Naturals, FiniteSets

CONSTANTS Users, Sockets, Owner, Staff, Ids, Handlers, WritesFail   \* as in Presence and Calls

ASSUME RealtimeAssumption ==
    /\ Owner \in [Sockets -> Users]
    /\ Staff \subseteq Users
    /\ Users \cap Ids = {} /\ Users \cap Handlers = {} /\ Ids \cap Handlers = {}
    /\ WritesFail \in BOOLEAN

VARIABLES
    sock, online, mirroring, shown, grace,      \* Presence
    call, live, ring, log, mirrored, job,       \* Calls
    pushed          \* per call: the invitation went to the phone

P == INSTANCE Presence
C == INSTANCE Calls

presenceVars == <<sock, online, mirroring, shown, grace>>
callVars == <<call, live, ring, log, mirrored, job>>
vars == <<presenceVars, callVars, pushed>>
-----------------------------------------------------------------------------
Init == P!Init /\ C!Init /\ pushed = [c \in Ids |-> FALSE]

\* A socket event is handled for the identity of its socket.
Request(h) ==
    /\ \E u \in Users : P!Connected(u) /\ C!Request(h, u)
    /\ UNCHANGED <<presenceVars, pushed>>

\* onCallInvite, after the call went live: ring the sockets or the phone.
Created(h) ==
    LET c == job[h].id IN
    /\ C!Created(h)
    /\ pushed' = [pushed EXCEPT ![c] = ~P!IsOnline(job[h].callee)]
    /\ UNCHANGED presenceVars

Resume(s) ==
    \/ Created(s)
    \/ /\ C!Recorded(s) \/ C!InsertFails(s) \/ C!Accepted(s) \/ C!Finished(s)
       /\ UNCHANGED <<presenceVars, pushed>>

RingFires(c) == C!RingFires(c) /\ UNCHANGED <<presenceVars, pushed>>

Come(s) == (P!Connect(s) \/ P!Resolved(s) \/ P!Refused(s) \/ P!Drop(s))
           /\ UNCHANGED <<callVars, pushed>>

Leave(s) == P!Disconnect(s) /\ UNCHANGED <<callVars, pushed>>

Mirrored(s) == (\E value \in BOOLEAN : P!Mirrored(s, value)) /\ UNCHANGED <<callVars, pushed>>

\* The timer of handleDisconnect.  The insert of an invitation takes less than
\* DISCONNECT_GRACE_MS, so the caller's timer does not fire during one.
GraceExpires(u) ==
    /\ \A h \in Handlers : job[h].pc = "create" => job[h].caller # u
    /\ P!GraceExpires(u)
    /\ IF P!IsOnline(u) THEN UNCHANGED callVars ELSE C!EndCallsFor(u)
    /\ UNCHANGED pushed

Next ==
    \/ \E h \in Handlers : Request(h)
    \/ \E s \in C!Slots : Resume(s)
    \/ \E c \in Ids : RingFires(c)
    \/ \E s \in Sockets : Come(s) \/ Leave(s) \/ Mirrored(s)
    \/ \E u \in Users : GraceExpires(u)

Spec == Init /\ [][Next]_vars

\* Queries and writes return and timers fire.
FairSpec ==
    /\ Spec
    /\ \A s \in C!Slots : WF_vars(Resume(s))
    /\ \A c \in Ids : WF_vars(RingFires(c))
    /\ \A s \in Sockets : WF_vars(Mirrored(s))
    /\ \A u \in Users : WF_vars(GraceExpires(u))
-----------------------------------------------------------------------------
TypeOK == P!TypeOK /\ C!TypeOK /\ pushed \in [Ids -> BOOLEAN]

\* However many connections of a user come and go, the open ones are registered:
\* nobody who can be reached is shown as away, or has their calls torn down.
ConnectedIsOnline == P!ConnectedIsOnline

\* The teardown of a user still has this call before it.
TearingDown(u, c) ==
    /\ job[u].pc = "finish"
    /\ job[u].id = c \/ c \in job[u].rest

\* Nobody is left in a call with somebody who is gone: for each party of a live
\* call that was answered, the party is online, or the grace timer is armed or
\* about to be, or the call is being ended.
AnsweredIsAttended ==
    \A c \in Ids, u \in Users :
        live[c] /\ call[c].status = "accepted" /\ C!Party(c, u)
        => P!IsOnline(u) \/ P!Leaving(u) \/ grace[u] \/ C!InFlight(c) \/ TearingDown(u, c)

\* ... and if the party stays away the call ends.
AbandonedCallEnds ==
    \A c \in Ids, u \in Users :
        (live[c] /\ C!Party(c, u) /\ ~P!IsOnline(u)) ~> (~live[c] \/ P!IsOnline(u))

\* A call does not ring for ever, though nobody need answer, hang up or leave.
StopsRinging == C!StopsRinging
-----------------------------------------------------------------------------
\* "If callee has no live socket: FCM data-push".
OfflineCalleeIsPushed ==
    [][\A c \in Ids : live'[c] /\ ~live[c] /\ ~P!Connected(call'[c].callee) => pushed'[c]]_vars
=============================================================================

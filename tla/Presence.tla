------------------------------ MODULE Presence ------------------------------
(***************************************************************************)
(* Who is online: the socket registry (RealtimeService), the connect and   *)
(* disconnect handlers of RealtimeGateway, the grace timer that delays the *)
(* teardown of a user's calls, and the "online" column they mirror.        *)
(*                                                                         *)
(* A connect handler awaits the identity, and then the mirror write; a     *)
(* disconnect handler awaits the mirror write before it arms the timer.    *)
(***************************************************************************)
EXTENDS FiniteSets

CONSTANTS
    Users,          \* user ids that may use realtime
    Sockets,        \* connections
    Owner,          \* whose token a connection carries
    Staff,          \* the employees: their direct thread mirrors them
    WritesFail      \* whether a mirror write may be lost (".catch")

VARIABLES
    sock,           \* per connection: where it is in its life
    online,         \* per user: the registered connections
    mirroring,      \* per connection: mirror writes its handlers await
    shown,          \* per user: the "online" column of the direct thread
    grace           \* per user: the teardown timer is armed

presenceVars == <<sock, online, mirroring, shown, grace>>
-----------------------------------------------------------------------------
\* lost: disconnected while its identity was being resolved.
Stages == {"off", "resolving", "lost", "on", "leaving"}

TypeOK ==
    /\ sock \in [Sockets -> Stages]
    /\ online \in [Users -> SUBSET Sockets]
    /\ mirroring \in [Sockets -> SUBSET BOOLEAN]
    /\ shown \in [Users -> BOOLEAN]
    /\ grace \in [Users -> BOOLEAN]
    /\ \A s \in Sockets :
          /\ sock[s] = "leaving" <=> FALSE \in mirroring[s]
          /\ mirroring[s] # {} => Owner[s] \in Staff
    /\ \A u \in Users : \A s \in online[u] : Owner[s] = u

Init ==
    /\ sock = [s \in Sockets |-> "off"]
    /\ online = [u \in Users |-> {}]
    /\ mirroring = [s \in Sockets |-> {}]
    /\ shown = [u \in Users |-> FALSE]
    /\ grace = [u \in Users |-> FALSE]

IsOnline(u) == online[u] # {}

\* The user has a connection that can still send and receive.
Connected(u) == \E s \in Sockets : Owner[s] = u /\ sock[s] = "on"

\* A disconnect handler of the user awaits its mirror write.
Leaving(u) == \E s \in Sockets : Owner[s] = u /\ sock[s] = "leaving"
-----------------------------------------------------------------------------
\* Connection ids are not reused while anything still refers to one.
Connect(s) ==
    /\ sock[s] = "off" /\ mirroring[s] = {} /\ s \notin online[Owner[s]]
    /\ sock' = [sock EXCEPT ![s] = "resolving"]
    /\ UNCHANGED <<online, mirroring, shown, grace>>

\* The identity is there: the timer is cancelled and the connection registered,
\* whether it is still open or not.
Resolved(s) ==
    LET u == Owner[s] IN
    /\ sock[s] \in {"resolving", "lost"}
    /\ sock' = [sock EXCEPT ![s] = IF @ = "lost" THEN "off" ELSE "on"]
    /\ grace' = [grace EXCEPT ![u] = FALSE]
    /\ online' = [online EXCEPT ![u] = @ \cup {s}]
    /\ mirroring' = IF IsOnline(u) \/ u \notin Staff THEN mirroring
                    ELSE [mirroring EXCEPT ![s] = @ \cup {TRUE}]
    /\ UNCHANGED shown

\* The token is refused and the connection closed.
Refused(s) ==
    /\ sock[s] \in {"resolving", "lost"}
    /\ sock' = [sock EXCEPT ![s] = "off"]
    /\ UNCHANGED <<online, mirroring, shown, grace>>

\* Before there is an identity the disconnect handler has nothing to undo.
Drop(s) ==
    /\ sock[s] = "resolving"
    /\ sock' = [sock EXCEPT ![s] = "lost"]
    /\ UNCHANGED <<online, mirroring, shown, grace>>

\* The mistakes below, named ...Bug, are found by TypeOK, ConnectedIsOnline and
\* AbandonedCallEnds of Realtime.
DisconnectScopeBug(s) ==                  \* mirrors admins as well
    LET u == Owner[s]
        offline == online[u] = {s}
    IN
    /\ sock[s] = "on"
    /\ online' = [online EXCEPT ![u] = @ \ {s}]
    /\ sock' = [sock EXCEPT ![s] = IF offline THEN "leaving" ELSE "off"]
    /\ mirroring' = IF offline THEN [mirroring EXCEPT ![s] = @ \cup {FALSE}] ELSE mirroring
    /\ UNCHANGED <<shown, grace>>

DisconnectBug(s) ==                       \* drops the user, not the connection
    LET u == Owner[s]
        offline == online[u] = {s}
    IN
    /\ sock[s] = "on"
    /\ online' = [online EXCEPT ![u] = {}]
    /\ sock' = [sock EXCEPT ![s] = IF offline /\ u \in Staff THEN "leaving" ELSE "off"]
    /\ mirroring' = IF offline /\ u \in Staff
                    THEN [mirroring EXCEPT ![s] = @ \cup {FALSE}] ELSE mirroring
    /\ grace' = IF offline /\ u \notin Staff THEN [grace EXCEPT ![u] = TRUE] ELSE grace
    /\ UNCHANGED shown

\* The disconnect handler gets to removeSocket: until it has left the meetings of the
\* connection, one after another, a closed connection counts as on.  The last connection
\* of an employee starts a mirror write; for an admin there is none and the timer is
\* armed at once.
Disconnect(s) ==
    LET u == Owner[s]
        offline == online[u] = {s}
    IN
    /\ sock[s] = "on"
    /\ online' = [online EXCEPT ![u] = @ \ {s}]
    /\ sock' = [sock EXCEPT ![s] = IF offline /\ u \in Staff THEN "leaving" ELSE "off"]
    /\ mirroring' = IF offline /\ u \in Staff
                    THEN [mirroring EXCEPT ![s] = @ \cup {FALSE}] ELSE mirroring
    /\ grace' = IF offline /\ u \notin Staff THEN [grace EXCEPT ![u] = TRUE] ELSE grace
    /\ UNCHANGED shown

\* A mirror write lands and its handler resumes: the disconnect handler arms the
\* timer, whoever is online by then.  Writes in flight together land in any order.
Mirrored(s, value) ==
    LET u == Owner[s] IN
    /\ value \in mirroring[s]
    /\ \/ shown' = [shown EXCEPT ![u] = value]
       \/ WritesFail /\ UNCHANGED shown
    /\ mirroring' = [mirroring EXCEPT ![s] = @ \ {value}]
    /\ IF value
       THEN UNCHANGED <<sock, grace>>
       ELSE /\ sock' = [sock EXCEPT ![s] = "off"]
            /\ grace' = [grace EXCEPT ![u] = TRUE]
    /\ UNCHANGED online

\* The timer fires; if the user is offline their calls are torn down.
GraceExpires(u) ==
    /\ grace[u]
    /\ grace' = [grace EXCEPT ![u] = FALSE]
    /\ UNCHANGED <<sock, online, mirroring, shown>>

Next ==
    \/ \E s \in Sockets :
          \/ Connect(s) \/ Resolved(s) \/ Refused(s) \/ Drop(s) \/ Disconnect(s)
          \/ \E value \in BOOLEAN : Mirrored(s, value)
    \/ \E u \in Users : GraceExpires(u)

Spec == Init /\ [][Next]_presenceVars
-----------------------------------------------------------------------------
\* A user with an open, accepted connection is online, however many connections
\* of theirs come and go: nobody who can be reached is shown as away.
ConnectedIsOnline ==
    \A s \in Sockets : sock[s] = "on" => s \in online[Owner[s]]
-----------------------------------------------------------------------------
(***************************************************************************)
(* What the repository says and the code does not keep.                    *)
(***************************************************************************)

\* "Tracks which user ids currently have at least one live socket".
OnlineHasSocket == \A u \in Users : IsOnline(u) => Connected(u)

\* "handleConnection cancels this timer on reconnect": nobody who is online has
\* it armed, so that a later disconnect gets its whole grace.
GraceOnlyWhileAway == \A u \in Users : grace[u] => ~IsOnline(u)

\* "Mirror into ChatConversation.online so the HTTP list reflects it": when no
\* write is in flight the column tells who is online.
MirrorSettles ==
    \A u \in Staff :
        (\A s \in Sockets : Owner[s] = u => mirroring[s] = {}) => shown[u] = IsOnline(u)
=============================================================================

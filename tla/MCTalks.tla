------------------------------ MODULE MCTalks ------------------------------
(***************************************************************************)
(* For TLC, side by side because they share no state: calls of two (Calls, *)
(* with HasRoom for what may await a write at one time), meeting rooms     *)
(* with an employee on two connections (Meetings): one under an id that is *)
(* used again, or two with invitations of some only, and a meeting as its  *)
(* members see it (MeetingMesh).  focus says which of them moves.          *)
(***************************************************************************)
EXTENDS Calls, MeetingBounds, TLC

CONSTANTS Meeting, Queries, Pages, Phones, MaxJoins, MaxGone
CONSTANTS MaxInFlight, adm, emp, s1, s2, s3

MCAdmins == {adm}
MCEmployees == {emp}
MCSockets == {s1, s2, s3}
MCOwner == (s1 :> adm) @@ (s2 :> emp) @@ (s3 :> emp)

ASSUME MeshAssumption ==
    /\ Pages \cap Phones = {}
    /\ MaxJoins \in Nat /\ MaxGone \in Nat

VARIABLES
    open, number, invited, media, chat, group, announcement, closing, timers, ringing,
    conn, todo, work
VARIABLES
    door, room, up, down, phase, tried, flow, joined, local, running, peer, made, creating,
    task, members
VARIABLE focus

O == INSTANCE Meetings WITH
    Meetings <- {Meeting}, Handlers <- Queries, row <- announcement, job <- work
M == INSTANCE Meetings WITH
    Kinds <- {"some"}, MaxRooms <- 1, Handlers <- Queries, row <- announcement, job <- work
P == INSTANCE MeetingMesh WITH open <- door, live <- running

roomVars == <<
    open, number, invited, media, chat, group, announcement, closing, timers, ringing,
    conn, todo, work>>
meshVars == <<
    door, room, up, down, phase, tried, flow, joined, local, running, peer, made, creating,
    task, members>>

\* Requests, call ids and users are interchangeable: a free request is the first that is
\* free, a row is the first that is not there, and the first row is of a call of one user.
\* So are the pages of the mesh.
MeshSymmetry == Permutations(Pages)

First(S) == CHOOSE x \in S : TRUE
Rowless == {c \in Ids : log[c] = "none"}
IdleHandlers == {h \in Handlers : At(h, "idle")}
InTurn ==
    \A h \in Handlers, c \in Rowless :
        log'[c] # "none" /\ job[h].pc \in {"create", "record"} /\ job[h].id = c =>
            /\ c = First(Rowless)
            /\ Rowless = Ids => job[h].caller = First(Users)

\* The bound on what begins to await a write: MaxInFlight at one time about the first
\* call, one less when every call has its row.
HasRoom ==
    Cardinality({s \in Slots : job'[s] # Idle}) <= MaxInFlight - (IF Rowless = {} THEN 1 ELSE 0)

CallsNext ==
    \/ \E u \in Users :
          IdleHandlers # {} /\ Request(First(IdleHandlers), u) /\ HasRoom
    \/ \E s \in Slots : Resume(s) /\ InTurn
    \/ \E c \in Ids : RingFires(c) /\ HasRoom
    \/ \E u \in Users : EndCallsFor(u) /\ HasRoom

TalksInit ==
    /\ Init /\ P!Init
    /\ focus \in {"calls", "room", "rooms", "mesh"}
    /\ IF focus = "room" THEN O!Init ELSE M!Init

TalksNext ==
    \/ focus = "calls" /\ CallsNext /\ UNCHANGED <<roomVars, meshVars, focus>>
    \/ focus = "room" /\ O!Next /\ UNCHANGED <<vars, meshVars, focus>>
    \/ focus = "rooms" /\ M!Next /\ UNCHANGED <<vars, meshVars, focus>>
    \/ focus = "mesh" /\ P!Next /\ UNCHANGED <<vars, roomVars, focus>>

TalksSpec == TalksInit /\ [][TalksNext]_<<vars, roomVars, meshVars, focus>>

RoomTypesOK ==
    /\ focus = "room" => O!TypeOK
    /\ focus = "rooms" => M!TypeOK
    /\ focus = "mesh" => P!TypeOK
NoGhosts == IF focus = "room" THEN O!NoGhosts ELSE M!NoGhosts
DevicesAgree == IF focus = "room" THEN O!DevicesAgree ELSE M!DevicesAgree
Meshed == P!Meshed
ShownAreInside == P!ShownAreInside
=============================================================================
